---- MODULE Spec2Model ----
(***************************************************************************)
(* Model of the concurrency and resource-management core of               *)
(* my-local-assistant:                                                     *)
(*   - the token stream bridge (services/generation_service.py,           *)
(*     api/routes/streaming.py): an async generator that frames the       *)
(*     tokens a background generation thread pushes through a             *)
(*     TextIteratorStreamer queue;                                         *)
(*   - the function registry (services/function_service.py) and the two    *)
(*     tools registered at startup (services/weather_service.py,          *)
(*     services/search_service.py, core/lifespan.py);                      *)
(*   - the document cache (utils/cache_manager.py,                         *)
(*     services/document_service.py);                                      *)
(*   - the file store's validation, filename sanitizing, save_file and     *)
(*     age-based eviction (utils/file_manager.py), and the cleanup         *)
(*     scheduler (utils/cleanup_scheduler.py);                             *)
(*   - the upload route (api/routes/files.py), stream identifiers, and     *)
(*     request validation in the chat, stream and execute-function         *)
(*     routes (api/routes/chat.py, streaming.py, functions.py).            *)
(***************************************************************************)
EXTENDS Integers, Sequences, FiniteSets, TLC

(***************************************************************************)
(* Bounds                                                                  *)
(***************************************************************************)
\* most tokens one generation call produces
MaxTokens == 3

\* token texts the streamer can hand over
Tokens == {"a", "b"}

(***************************************************************************)
(* Program constants                                                       *)
(***************************************************************************)
\* GENERATION_THREAD_TIMEOUT = 1.0 (seconds); NoTimeout stands for None
GENERATION_THREAD_TIMEOUT == 1
NoTimeout == 0 - 1

\* DISCONNECTION_EXCEPTIONS tuple
DISCONNECTION_EXCEPTIONS ==
    {"ConnectionResetError", "ConnectionAbortedError", "BrokenPipeError", "GeneratorExit"}

\* subclasses of Exception among the exceptions of the model (GeneratorExit
\* derives from BaseException only)
IsException(e) == e \notin {"none", "GeneratorExit"}

Null == "null"

\* the streamer's stop_signal (None in the queue)
STOP == "<stop_signal>"

VARIABLES
    \* ---- token stream bridge ----
    pc,          \* position of the async generator create_token_generator
    out,         \* the pieces the generator has yielded, in order
    idx,         \* enumerate() counter of the for loop
    cur,         \* the token bound by the for loop
    exc,         \* exception in flight in the generator body ("none" if none)
    escaped,     \* exception that left the generator frame ("none" if none)
    queue,       \* streamer.text_queue
    produced,    \* every token text the generation call has put, in order
    thread,      \* state of the generation Thread
    joins,       \* number of thread.join(timeout) calls made
    log,         \* order of the teardown events: "cancel", "join", "stop"
    cancelAt,    \* generator position at which the consumer stopped ("none")
    outAtCancel, \* out at the moment the consumer stopped
    \* ---- function registry ----
    functions,   \* FunctionRegistry.functions: name -> definition
    lastReg,     \* per name, the definition of the latest register() call
    call,        \* per caller: the execute() call it has in progress
    tools,       \* the latest get_tools_schema() call: the registry it saw, its result
    store,       \* the rows of the diskcache store: key -> row
    now,         \* the clock, in seconds
    req,         \* per request: its process_document_with_cache call
    lastOp,      \* the latest CacheManager operation and what it returned
    upload,      \* the uploaded file: its filename and its size
    verdict,     \* what validate_file returned for it
    safe,        \* what _sanitize_filename returned for it
    saved,       \* a save_file call: the filename it was given, the path it returned
    post,        \* the request to /v1/chat/upload: its files, the position in its loop
    updir,       \* the files the request has written to the upload directory
    handed,      \* the stored files handed to the document converter
    docs,        \* the conversions the request has added to the cache
    wall,        \* the wall clock time.time() reads, in ticks
    sessions,    \* the stream sessions opened so far: identifier, tick of opening
    inbound,        \* a request to one of the routes: its body, how it was answered
    disk,        \* the entries of the upload directory: name -> kind, mtime
    sweep,       \* the latest cleanup_old_files call and what it returned
    sched,       \* the APScheduler instance: its state, whether start() was called
    jobs,        \* the jobs of the scheduler: id -> interval, next run time
    inflight,    \* the job runs that have begun and not ended
    lastRun      \* the latest job run that ended

streamVars == <<pc, out, idx, cur, exc, escaped, queue, produced, thread, joins,
                log, cancelAt, outAtCancel>>

regVars == <<functions, lastReg, call, tools>>

cacheVars == <<store, now, req, lastOp>>
fileVars == <<upload, verdict, safe>>
uploadVars == <<saved, post, updir, handed, docs>>
sessionVars == <<wall, sessions>>
cleanupVars == <<disk, sweep>>
schedVars == <<sched, jobs, inflight, lastRun>>

\* what the actions of one component leave alone
otherThanStream == <<regVars, cacheVars, fileVars, cleanupVars, schedVars, uploadVars, sessionVars, inbound>>
otherThanReg == <<streamVars, cacheVars, fileVars, cleanupVars, schedVars, uploadVars, sessionVars, inbound>>
otherThanCache == <<streamVars, regVars, fileVars, cleanupVars, schedVars, uploadVars, sessionVars, inbound>>
otherThanFiles == <<streamVars, regVars, cacheVars, cleanupVars, schedVars, uploadVars, sessionVars, inbound>>
otherThanCleanup == <<streamVars, regVars, fileVars, store, req, lastOp, schedVars, uploadVars, sessionVars, inbound>>
otherThanSched == <<streamVars, regVars, fileVars, req, uploadVars, sessionVars, inbound>>
otherThanUpload == <<streamVars, regVars, cacheVars, fileVars, cleanupVars, schedVars, sessionVars, inbound>>
otherThanSessions == <<streamVars, regVars, cacheVars, fileVars, cleanupVars, schedVars, uploadVars, inbound>>
otherThanHttp == <<streamVars, regVars, cacheVars, fileVars, cleanupVars, schedVars, uploadVars,
                   sessionVars>>

vars == <<streamVars, regVars, cacheVars, fileVars, cleanupVars, schedVars, uploadVars,
          sessionVars, inbound>>

(***************************************************************************)
(* Token stream bridge                                                     *)
(***************************************************************************)

\* the opening literal '{"id": "...", "choices": ['
Opening == [kind |-> "open", index |-> -1, content |-> Null, finish_reason |-> Null]

\* the separator ','
Comma == [kind |-> "comma", index |-> -1, content |-> Null, finish_reason |-> Null]

\* the closing literal '], "finish_reason": "stop"}'
Closing == [kind |-> "close", index |-> -1, content |-> Null, finish_reason |-> "stop"]

CreateTokenChunkOffByOne(index, content, finish_reason) ==
    [kind |-> "chunk", index |-> index + 1, content |-> content,
     finish_reason |-> finish_reason]

\* _create_token_chunk(index, content, finish_reason=None)
CreateTokenChunk(index, content, finish_reason) ==
    [kind |-> "chunk", index |-> index, content |-> content,
     finish_reason |-> finish_reason]

\* Thread.is_alive()
IsAlive(th) == th \in {"running", "returning"}

JoinReturnsWithoutTimeout(th, timeout) == ~IsAlive(th)

\* Thread.join(timeout) returns when the thread has ended or the timeout has
\* passed; with timeout None it returns only when the thread has ended
JoinReturns(th, timeout) == ~IsAlive(th) \/ timeout # NoTimeout

cancelled == cancelAt # "none"

YieldPoints == {"y_open", "y_comma", "y_chunk", "y_close"}
InWithBlock(p) == p \in {"y_comma", "y_chunk"}

StreamInit ==
    /\ pc = "start"
    /\ out = <<>>
    /\ idx = 0
    /\ cur = Null
    /\ exc = "none"
    /\ escaped = "none"
    /\ queue = <<>>
    /\ produced = <<>>
    /\ thread = "unstarted"
    /\ joins = 0
    /\ log = <<>>
    /\ cancelAt = "none"
    /\ outAtCancel = <<>>

SafeStopStreamerUnguarded(endRaises, lg, q) ==
    /\ log' = Append(lg, "stop")
    /\ IF endRaises
       THEN /\ escaped' = "Exception"
            /\ queue' = q
       ELSE /\ queue' = Append(q, STOP)
            /\ UNCHANGED escaped

\* _safe_stop_streamer(streamer): streamer.end() puts the stop signal on the
\* queue; an exception of end() is swallowed.  lg and q are the teardown log
\* and the queue as the caller leaves them.
SafeStopStreamer(endRaises, lg, q) ==
    /\ log' = Append(lg, "stop")
    /\ IF endRaises
       THEN /\ queue' = q
            /\ UNCHANGED escaped
       ELSE /\ queue' = Append(q, STOP)
            /\ UNCHANGED escaped

\* the except clauses of create_token_generator for exception e: the
\* disconnection exceptions and every Exception end in _safe_stop_streamer,
\* anything else leaves the generator
ExceptClauses(e, lg, q) ==
    /\ pc' = "done"
    /\ IF e \in DISCONNECTION_EXCEPTIONS \/ IsException(e)
       THEN \E endRaises \in BOOLEAN : SafeStopStreamer(endRaises, lg, q)
       ELSE /\ escaped' = e
            /\ queue' = q
            /\ log' = lg

\* what follows the with block: the closing yield on normal exit, the except
\* clauses when exception e is in flight
AfterWith(e, lg, q) ==
    IF e = "none"
    THEN /\ out' = Append(out, Closing)
         /\ pc' = "y_close"
         /\ queue' = q
         /\ log' = lg
         /\ UNCHANGED escaped
    ELSE /\ ExceptClauses(e, lg, q)
         /\ UNCHANGED out

\* leaving the with block: the finally of _managed_generation_thread joins the
\* thread, with the timeout, only if it is still alive
ExitWith(e, lg, q) ==
    IF IsAlive(thread)
    THEN /\ pc' = "joining"
         /\ joins' = joins + 1
         /\ log' = Append(lg, "join")
         /\ queue' = q
         /\ UNCHANGED <<out, escaped>>
    ELSE /\ AfterWith(e, lg, q)
         /\ UNCHANGED joins

\* first __anext__: the opening yield
Start ==
    /\ pc = "start"
    /\ out' = Append(out, Opening)
    /\ pc' = "y_open"
    /\ UNCHANGED <<idx, cur, exc, escaped, queue, produced, thread, joins, log,
                   cancelAt, outAtCancel>>
    /\ UNCHANGED otherThanStream

\* resumed after the opening: _managed_generation_thread starts the thread
EnterWith ==
    /\ pc = "y_open"
    /\ thread' = "running"
    /\ pc' = "iter"
    /\ UNCHANGED <<out, idx, cur, exc, escaped, queue, produced, joins, log,
                   cancelAt, outAtCancel>>
    /\ UNCHANGED otherThanStream

NextTokenCommaAlways ==
    /\ pc = "iter"
    /\ queue # <<>>
    /\ Head(queue) # STOP
    /\ cur' = Head(queue)
    /\ queue' = Tail(queue)
    /\ IF idx >= 0
       THEN /\ out' = Append(out, Comma)
            /\ pc' = "y_comma"
       ELSE /\ out' = Append(out, CreateTokenChunk(idx, Head(queue), Null))
            /\ pc' = "y_chunk"
    /\ UNCHANGED <<idx, exc, escaped, produced, thread, joins, log, cancelAt, outAtCancel>>
    /\ UNCHANGED otherThanStream

\* next(streamer) returns a token: the comma (index > 0) or the chunk is yielded
NextToken ==
    /\ pc = "iter"
    /\ queue # <<>>
    /\ Head(queue) # STOP
    /\ cur' = Head(queue)
    /\ queue' = Tail(queue)
    /\ IF idx > 0
       THEN /\ out' = Append(out, Comma)
            /\ pc' = "y_comma"
       ELSE /\ out' = Append(out, CreateTokenChunk(idx, Head(queue), Null))
            /\ pc' = "y_chunk"
    /\ UNCHANGED <<idx, exc, escaped, produced, thread, joins, log, cancelAt, outAtCancel>>
    /\ UNCHANGED otherThanStream

\* resumed after the comma: the chunk is yielded
ResumeComma ==
    /\ pc = "y_comma"
    /\ out' = Append(out, CreateTokenChunk(idx, cur, Null))
    /\ pc' = "y_chunk"
    /\ UNCHANGED <<idx, cur, exc, escaped, queue, produced, thread, joins, log,
                   cancelAt, outAtCancel>>
    /\ UNCHANGED otherThanStream

ResumeChunkSameIndex ==
    /\ pc = "y_chunk"
    /\ pc' = "iter"
    /\ UNCHANGED <<idx, out, cur, exc, escaped, queue, produced, thread, joins, log,
                   cancelAt, outAtCancel>>
    /\ UNCHANGED otherThanStream

\* resumed after a chunk: enumerate advances and the loop asks for the next token
ResumeChunk ==
    /\ pc = "y_chunk"
    /\ idx' = idx + 1
    /\ pc' = "iter"
    /\ UNCHANGED <<out, cur, exc, escaped, queue, produced, thread, joins, log,
                   cancelAt, outAtCancel>>
    /\ UNCHANGED otherThanStream

\* next(streamer) meets the stop signal: StopIteration ends the loop and the
\* with block is left normally
EndOfStream ==
    /\ pc = "iter"
    /\ queue # <<>>
    /\ Head(queue) = STOP
    /\ ExitWith("none", log, Tail(queue))
    /\ UNCHANGED <<idx, cur, exc, produced, thread, cancelAt, outAtCancel>>
    /\ UNCHANGED otherThanStream

\* thread.join(timeout=timeout) returns
JoinReturn ==
    /\ pc = "joining"
    /\ JoinReturns(thread, GENERATION_THREAD_TIMEOUT)
    /\ AfterWith(exc, log, queue)
    /\ UNCHANGED <<idx, cur, exc, produced, thread, joins, cancelAt, outAtCancel>>
    /\ UNCHANGED otherThanStream

\* resumed after the closing literal: the generator returns
ResumeClose ==
    /\ pc = "y_close"
    /\ pc' = "done"
    /\ UNCHANGED <<out, idx, cur, exc, escaped, queue, produced, thread, joins, log,
                   cancelAt, outAtCancel>>
    /\ UNCHANGED otherThanStream

\* the consumer stops iterating: GeneratorExit is thrown at the yield the
\* generator is suspended at; inside the with block it passes the finally
\* first, outside it reaches the except clauses directly
Cancel ==
    /\ pc \in YieldPoints
    /\ ~cancelled
    /\ cancelAt' = pc
    /\ outAtCancel' = out
    /\ exc' = "GeneratorExit"
    /\ IF InWithBlock(pc)
       THEN ExitWith("GeneratorExit", Append(log, "cancel"), queue)
       ELSE /\ ExceptClauses("GeneratorExit", Append(log, "cancel"), queue)
            /\ UNCHANGED <<out, joins>>
    /\ UNCHANGED <<idx, cur, produced, thread>>
    /\ UNCHANGED otherThanStream

\* ---- the generation call, in its own thread ----

\* model.generate hands a token text to the streamer (streamer.put)
Generate ==
    /\ thread = "running"
    /\ Len(produced) < MaxTokens
    /\ \E t \in Tokens :
          /\ queue' = Append(queue, t)
          /\ produced' = Append(produced, t)
    /\ UNCHANGED <<pc, out, idx, cur, exc, escaped, thread, joins, log, cancelAt,
                   outAtCancel>>
    /\ UNCHANGED otherThanStream

\* model.generate completes: it calls streamer.end(), which puts the stop signal
GenerateEnd ==
    /\ thread = "running"
    /\ queue' = Append(queue, STOP)
    /\ thread' = "returning"
    /\ UNCHANGED <<pc, out, idx, cur, exc, escaped, produced, joins, log, cancelAt,
                   outAtCancel>>
    /\ UNCHANGED otherThanStream

\* the thread's target has returned: the thread ends
ThreadExit ==
    /\ thread = "returning"
    /\ thread' = "exited"
    /\ UNCHANGED <<pc, out, idx, cur, exc, escaped, queue, produced, joins, log,
                   cancelAt, outAtCancel>>
    /\ UNCHANGED otherThanStream

\* model.generate raises in the thread: the thread ends and nothing is put on
\* the queue
GenerateRaise ==
    /\ thread = "running"
    /\ thread' = "failed"
    /\ UNCHANGED <<pc, out, idx, cur, exc, escaped, queue, produced, joins, log,
                   cancelAt, outAtCancel>>
    /\ UNCHANGED otherThanStream

ConsumerNext ==
    \/ Start
    \/ EnterWith
    \/ NextToken
    \/ ResumeComma
    \/ ResumeChunk
    \/ EndOfStream
    \/ JoinReturn
    \/ ResumeClose

ProducerNext ==
    \/ Generate
    \/ GenerateEnd
    \/ ThreadExit
    \/ GenerateRaise

StreamNext ==
    \/ ConsumerNext
    \/ Cancel
    \/ ProducerNext

(***************************************************************************)
(* Function registry                                                       *)
(***************************************************************************)

\* concurrent callers of execute()
Callers == {1, 2}

\* function names callers ask for; "missing_fn" is never registered
FnNames == {"echo", "fetch", "boom", "missing_fn"}

ParamNames == {"text", "units"}

Values == {"hi", "yo"}

\* the arguments mappings: every partial mapping of parameter names to values
ArgMaps == UNION {[S -> Values] : S \in SUBSET ParamNames}

\* the value of calling a coroutine function without awaiting it
Coroutine == "<coroutine object>"

Return(v) == [kind |-> "return", value |-> v, exc |-> Null, msg |-> <<>>]
Raise(e, m) == [kind |-> "raise", value |-> Null, exc |-> e, msg |-> m]

\* nothing has been called yet
NoOutcome == [kind |-> "none", value |-> Null, exc |-> Null, msg |-> <<>>]

\* The handlers: their signature (async def or def, the keywords accepted,
\* those without a default).  h_fetch has the shape of get_weather and
\* search_web: a coroutine with one mandatory and one defaulted parameter.
HandlerIds == {"h_echo", "h_fetch", "h_boom", "get_weather", "search_web"}

\* how an outbound HTTP request of a handler ends: a response, the per-call
\* timeout, or another failure of the request
HttpResults == {"ok", "timeout", "failed"}

HandlerSig(h) ==
    CASE h = "h_echo"  -> [async |-> FALSE, accepts |-> {"text"}, needs |-> {"text"}]
      [] h = "h_fetch" -> [async |-> TRUE, accepts |-> {"text", "units"}, needs |-> {"text"}]
      [] h = "h_boom"  -> [async |-> FALSE, accepts |-> {"text", "units"}, needs |-> {}]
      [] h = "get_weather" ->
            [async |-> TRUE, accepts |-> {"location", "units", "api_key"},
             needs |-> {"location"}]
      [] h = "search_web" ->
            [async |-> TRUE, accepts |-> {"query", "max_results"}, needs |-> {"query"}]

\* get_weather makes no outbound request when api_key is left at "demo"
WeatherIsDemo(args) == "api_key" \notin DOMAIN args \/ args["api_key"] = "demo"

\* get_weather: mock data for the demo key; otherwise the forecast request,
\* whose timeout and other exceptions are caught and returned as a
\* dictionary with an "error" entry (a failed geocoding request falls back
\* to default coordinates and changes nothing here)
GetWeather(args, http) ==
    IF WeatherIsDemo(args) THEN Return("mock weather data")
    ELSE CASE http = "ok"      -> Return("weather data")
           [] http = "timeout" -> Return("error: Weather API request timed out")
           [] http = "failed"  -> Return("error: connect failed")

\* search_web: the search request; its timeout and other exceptions are
\* caught and returned as a dictionary with an "error" entry
SearchWeb(args, http) ==
    CASE http = "ok"      -> Return("search result")
      [] http = "timeout" -> Return("error: Search API request timed out")
      [] http = "failed"  -> Return("error: connect failed")

\* the outcome of the handler's body on args when its outbound request, if it
\* makes one, ends as http: h_echo returns its text, h_fetch returns or lets
\* the request's exception out, h_boom raises
HandlerRun(h, args, http) ==
    CASE h = "h_echo"  -> Return(args["text"])
      [] h = "h_fetch" ->
            (CASE http = "ok"      -> Return(args["text"])
               [] http = "timeout" -> Raise("TimeoutError", <<"timed", "out">>)
               [] http = "failed"  -> Raise("ConnectionError", <<"connect", "failed">>))
      [] h = "h_boom"  -> Raise("ValueError", <<"boom">>)
      [] h = "get_weather" -> GetWeather(args, http)
      [] h = "search_web"  -> SearchWeb(args, http)

\* whether the body of h on args makes an outbound request
MakesRequest(h, args) ==
    \/ h \in {"h_fetch", "search_web"}
    \/ h = "get_weather" /\ ~WeatherIsDemo(args)

\* what running the handler's body on args can do
HandlerBody(h, args) == {HandlerRun(h, args, http) : http \in HttpResults}

Param(n, required, enum) == [name |-> n, required |-> required, enum |-> enum]

Definition(n, d, ps, h) ==
    [name |-> n, description |-> d, parameters |-> ps, handler |-> h]

\* the definitions register() is called with; two of them share the name "echo"
Catalogue ==
    { Definition("echo", "echo the text", <<Param("text", TRUE, FALSE)>>, "h_echo"),
      Definition("echo", "echo with units",
                 <<Param("units", TRUE, TRUE), Param("text", TRUE, FALSE)>>, "h_fetch"),
      Definition("fetch", "fetch by text",
                 <<Param("text", TRUE, FALSE), Param("units", FALSE, TRUE)>>, "h_fetch"),
      Definition("boom", "always fails", <<Param("text", FALSE, FALSE)>>, "h_boom") }

\* dict.get(name) finding nothing (None)
NoFunc == Definition(Null, Null, <<>>, Null)

Failure(msg) == [success |-> FALSE, result |-> Null, error |-> msg]
Success(v) == [success |-> TRUE, result |-> v, error |-> <<>>]
NoResult == [success |-> FALSE, result |-> Null, error |-> <<"<pending>">>]

\* io: how the outbound request of the awaited handler ended ("none": none made)
Idle ==
    [pc |-> "idle", name |-> Null, args |-> <<>>, func |-> NoFunc,
     outcome |-> NoOutcome, result |-> NoResult, invoked |-> <<>>, io |-> "none"]

NoTools == [called |-> FALSE, of |-> <<>>, result |-> {}]

RegInit ==
    /\ functions = <<>>
    /\ lastReg = <<>>
    /\ call = [c \in Callers |-> Idle]
    /\ tools = NoTools

\* fs with definition d stored under its name
Upsert(fs, d) ==
    [n \in DOMAIN fs \cup {d.name} |-> IF n = d.name THEN d ELSE fs[n]]

RegisterKeepFirst(d) ==
    /\ functions' = IF d.name \in DOMAIN functions THEN functions ELSE Upsert(functions, d)
    /\ lastReg' = Upsert(lastReg, d)
    /\ UNCHANGED <<call, tools>>
    /\ UNCHANGED otherThanReg

\* FunctionRegistry.register: self.functions[name] = {...}
Register(d) ==
    /\ functions' = Upsert(functions, d)
    /\ lastReg' = Upsert(lastReg, d)
    /\ UNCHANGED <<call, tools>>
    /\ UNCHANGED otherThanReg

\* self.functions.get(name)
GetFunction(fs, name) == IF name \in DOMAIN fs THEN fs[name] ELSE NoFunc

IsMissing(p, args) == p.required /\ p.name \notin DOMAIN args

FirstMissingLast(params, args) ==
    IF \E i \in DOMAIN params : IsMissing(params[i], args)
    THEN CHOOSE i \in DOMAIN params :
            /\ IsMissing(params[i], args)
            /\ \A j \in DOMAIN params : IsMissing(params[j], args) => j <= i
    ELSE 0

\* the for loop over params_schema.items(): the position of the parameter it
\* returns on, 0 when it runs to the end
RECURSIVE FirstMissingFrom(_, _, _)
FirstMissingFrom(params, args, i) ==
    IF i > Len(params) THEN 0
    ELSE IF IsMissing(params[i], args) THEN i
    ELSE FirstMissingFrom(params, args, i + 1)

FirstMissing(params, args) == FirstMissingFrom(params, args, 1)

IsCoroutineFunctionNever(h) == FALSE

\* inspect.iscoroutinefunction(handler)
IsCoroutineFunction(h) == HandlerSig(h).async

\* handler(**arguments): binding the keywords fails with TypeError; a coroutine
\* function returns a coroutine object without running its body
CallHandler(h, args) ==
    IF ~(DOMAIN args \subseteq HandlerSig(h).accepts /\ HandlerSig(h).needs \subseteq DOMAIN args)
    THEN {Raise("TypeError", <<"bad", "keyword", "arguments">>)}
    ELSE IF HandlerSig(h).async THEN {Return(Coroutine)}
    ELSE HandlerBody(h, args)

CaughtOnlyValueError(e) == e = "ValueError"

\* except Exception: every exception class of the model derives from Exception
CaughtByExecute(e) ==
    e \in {"TypeError", "ValueError", "TimeoutError", "KeyError", "ConnectionError"}

NotFoundMessage(name) == <<"Function", name, "not", "found">>
MissingMessage(p) == <<"Missing", "required", "parameter:", p>>

\* how an execute() call stands once outcome o of its handler call is known:
\* return {"success": True, "result": result}, or the except clause
Finish(cl, o, inv) ==
    IF o.kind = "return"
    THEN [cl EXCEPT !.pc = "returned", !.outcome = o, !.result = Success(o.value),
                    !.invoked = inv]
    ELSE IF CaughtByExecute(o.exc)
    THEN [cl EXCEPT !.pc = "returned", !.outcome = o, !.result = Failure(o.msg),
                    !.invoked = inv]
    ELSE [cl EXCEPT !.pc = "raised", !.outcome = o, !.invoked = inv]

\* the try block of execute() up to the first suspension: the calls it can
\* have become
TryBlock(cl) ==
    IF cl.func = NoFunc
    THEN {Finish(cl, Raise("TypeError", <<"'NoneType'", "is", "not", "subscriptable">>), <<>>)}
    ELSE
    LET m == FirstMissing(cl.func.parameters, cl.args)
        h == cl.func.handler
    IN  IF m # 0
        THEN {[cl EXCEPT !.pc = "returned",
                         !.result = Failure(MissingMessage(cl.func.parameters[m].name))]}
        ELSE IF IsCoroutineFunction(h)
        THEN { IF o.kind = "return"
               THEN [cl EXCEPT !.pc = "awaiting", !.invoked = <<h>>]
               ELSE Finish(cl, o, <<h>>) : o \in CallHandler(h, cl.args) }
        ELSE { Finish(cl, o, <<h>>) : o \in CallHandler(h, cl.args) }

ExecuteBodyNoCheck(cl) == TryBlock(cl)

\* execute() from the lookup to its return or first suspension
ExecuteBody(cl) ==
    IF cl.func = NoFunc
    THEN {[cl EXCEPT !.pc = "returned", !.result = Failure(NotFoundMessage(cl.name))]}
    ELSE TryBlock(cl)

\* caller c calls execute(name, args), name and args drawn from names and maps
ExecuteWith(c, names, maps) ==
    /\ call[c].pc = "idle"
    /\ \E name \in names, args \in maps :
          \E cl \in ExecuteBody([Idle EXCEPT !.name = name, !.args = args,
                                             !.func = GetFunction(functions, name)]) :
              call' = [call EXCEPT ![c] = cl]
    /\ UNCHANGED <<functions, lastReg, tools>>
    /\ UNCHANGED otherThanReg

\* caller c calls execute(name, args)
Execute(c) == ExecuteWith(c, FnNames, ArgMaps)

ResumedOnSharedArguments(c, http) ==
    LET cl == call[c]
        h == cl.func.handler
        others == {d \in Callers : d # c /\ call[d].pc # "idle"
                                   /\ DOMAIN call[d].args = DOMAIN cl.args}
        args == IF others = {} THEN cl.args ELSE call[CHOOSE d \in others : TRUE].args
    IN  [Finish(cl, HandlerRun(h, args, http), cl.invoked) EXCEPT
            !.io = IF MakesRequest(h, cl.args) THEN http ELSE "none"]

\* the call of caller c once its awaited handler has run with its outbound
\* request ending as http
Resumed(c, http) ==
    LET cl == call[c]
        h == cl.func.handler
    IN  [Finish(cl, HandlerRun(h, cl.args, http), cl.invoked) EXCEPT
            !.io = IF MakesRequest(h, cl.args) THEN http ELSE "none"]

\* the awaited coroutine of caller c completes
AwaitResume(c) ==
    /\ call[c].pc = "awaiting"
    /\ \E http \in HttpResults : call' = [call EXCEPT ![c] = Resumed(c, http)]
    /\ UNCHANGED <<functions, lastReg, tools>>
    /\ UNCHANGED otherThanReg

\* caller c takes the result of its call
Collect(c) ==
    /\ call[c].pc \in {"returned", "raised"}
    /\ call' = [call EXCEPT ![c] = Idle]
    /\ UNCHANGED <<functions, lastReg, tools>>
    /\ UNCHANGED otherThanReg

RegNext ==
    \/ \E d \in Catalogue : Register(d)
    \/ \E c \in Callers : Execute(c)
    \/ \E c \in Callers : AwaitResume(c)
    \/ \E c \in Callers : Collect(c)

\* the names of the parameters ps that satisfy Test, in declaration order
NamesWhere(ps, Test(_)) ==
    LET sel == SelectSeq(ps, Test) IN [i \in DOMAIN sel |-> sel[i].name]

ToolDescriptorAllRequired(func) ==
    [type |-> "function", name |-> func.name, description |-> func.description,
     properties |-> [n \in {func.parameters[i].name : i \in DOMAIN func.parameters} |->
                        LET p == func.parameters[CHOOSE i \in DOMAIN func.parameters :
                                                    func.parameters[i].name = n]
                        IN  [hasEnum |-> p.enum]],
     required |-> NamesWhere(func.parameters, LAMBDA p : TRUE)]

\* the entry get_tools_schema builds for one function: a property per
\* parameter, with "enum" when the parameter has one, and the names of the
\* parameters whose "required" is true
ToolDescriptor(func) ==
    [type |-> "function", name |-> func.name, description |-> func.description,
     properties |-> [n \in {func.parameters[i].name : i \in DOMAIN func.parameters} |->
                        LET p == func.parameters[CHOOSE i \in DOMAIN func.parameters :
                                                    func.parameters[i].name = n]
                        IN  [hasEnum |-> p.enum]],
     required |-> NamesWhere(func.parameters, LAMBDA p : p.required)]

\* FunctionRegistry.get_tools_schema: one entry per value of self.functions
\* (the entries taken as a set: their order is the dict's)
ToolsSchema(fs) == {ToolDescriptor(fs[n]) : n \in DOMAIN fs}

\* a call of get_tools_schema
GetToolsSchema ==
    /\ tools' = [called |-> TRUE, of |-> functions, result |-> ToolsSchema(functions)]
    /\ UNCHANGED <<functions, lastReg, call>>
    /\ UNCHANGED otherThanReg

\* the definitions the schema is built from: the catalogue, and a function
\* that declares no parameter
ToolsCatalogue == Catalogue \cup {Definition("ping", "no parameters", <<>>, "h_echo")}

ToolsNext ==
    \/ \E d \in ToolsCatalogue : Register(d)
    \/ GetToolsSchema

\* the registry as the application's startup leaves it
LifespanRegistry ==
    Upsert(Upsert(<<>>,
        Definition("get_weather", "get current weather",
                   <<Param("location", TRUE, FALSE), Param("units", FALSE, TRUE)>>,
                   "get_weather")),
        Definition("search_web", "search the web",
                   <<Param("query", TRUE, FALSE), Param("max_results", FALSE, FALSE)>>,
                   "search_web"))

LifespanRegInit ==
    /\ functions = LifespanRegistry
    /\ lastReg = LifespanRegistry
    /\ call = [c \in Callers |-> Idle]
    /\ tools = NoTools

ToolNames == {"get_weather", "search_web"}

ToolArgValues(p) ==
    CASE p = "location"    -> {"hi"}
      [] p = "units"       -> {"celsius"}
      [] p = "api_key"     -> {"demo", "k1"}
      [] p = "query"       -> {"yo"}
      [] p = "max_results" -> {"5"}

\* keyword arguments for the two tools
ToolArgMaps ==
    UNION { {f \in [S -> {"hi", "celsius", "demo", "k1", "yo", "5"}] :
                \A p \in S : f[p] \in ToolArgValues(p)} :
            S \in (SUBSET {"location", "units", "api_key"})
                    \cup (SUBSET {"query", "max_results"}) }

\* caller c calls execute on one of the tools registered at startup
ExecuteTool(c) == ExecuteWith(c, ToolNames, ToolArgMaps)

LifespanNext ==
    \/ \E c \in Callers : ExecuteTool(c)
    \/ \E c \in Callers : AwaitResume(c)
    \/ \E c \in Callers : Collect(c)

(***************************************************************************)
(* The document cache: CacheManager over a diskcache store, and            *)
(* process_document_with_cache                                             *)
(***************************************************************************)

CACHE_TTL_HOURS == 24
SECONDS_PER_HOUR == 3600

\* self.ttl_seconds = ttl_hours * 3600
TtlSeconds == CACHE_TTL_HOURS * SECONDS_PER_HOUR

\* the clock advances by 1/StepsPerTtl of the TTL, MaxClock times at most
StepsPerTtl == 2
MaxClock == 3
ClockStep == TtlSeconds \div StepsPerTtl
Horizon == MaxClock * ClockStep

Unreadable == "<unreadable>"

Paths == {"a.pdf", "b.pdf", "c.pdf", "gone.pdf"}

\* the bytes of each file: a.pdf and b.pdf hold the same bytes, gone.pdf
\* cannot be opened
Files ==
    [p \in Paths |-> CASE p \in {"a.pdf", "b.pdf"} -> "x"
                       [] p = "c.pdf"              -> "y"
                       [] OTHER                    -> Unreadable]

Requests == {1, 2}

GenerateKeyFromPath(path) == [alg |-> "md5", of |-> path]

\* CacheManager._generate_key: the SHA-256 of the file's bytes, or the MD5 of
\* the path when the file cannot be read (digests taken as collision-free)
GenerateKey(path) ==
    IF Files[path] # Unreadable
    THEN [alg |-> "sha256", of |-> Files[path]]
    ELSE [alg |-> "md5", of |-> path]

\* Python values: None, the dictionary of a successful conversion of the file
\* at path holding bytes b (markdown, metadata with the file's name), the
\* dictionary of a failed conversion
None == [none |-> TRUE, success |-> FALSE, markdown |-> Null, filename |-> Null]
Processed(b, path) == [none |-> FALSE, success |-> TRUE, markdown |-> b, filename |-> path]
ProcessingFailed(path) ==
    [none |-> FALSE, success |-> FALSE, markdown |-> Null, filename |-> path]

\* truth value of a Python value in "if cached:"
Truthy(d) == ~d.none

\* a row of the store; path records the path the row was set through
Row(v, t, path) ==
    [value |-> v, store_time |-> t, expire_time |-> t + TtlSeconds, path |-> path]

NoRow == [value |-> None, store_time |-> 0 - 1, expire_time |-> 0 - 1, path |-> Null]

LiveForever(row, t) == TRUE

\* diskcache reads a row only while expire_time > now
Live(row, t) == row.expire_time > t

\* diskcache Cache.get(key) at time t: the value of a live row, else None;
\* nothing is removed
StoreGet(st, key, t) ==
    IF key \in DOMAIN st /\ Live(st[key], t) THEN st[key].value ELSE None

ExpireEverything(st, t) == <<>>

\* diskcache Cache.expire() at time t: deletes the rows with expire_time < now
Expire(st, t) ==
    [k \in {j \in DOMAIN st : ~(st[j].expire_time < t)} |-> st[k]]

\* the cull at the end of a write: deletes the rows with expire_time < now
Cull(st, t) ==
    [k \in {j \in DOMAIN st : ~(st[j].expire_time < t)} |-> st[k]]

\* diskcache Cache.set(key, value, expire=ttl) at time t: writes the row, then
\* culls the rows that have expired
StoreSet(st, key, v, t, path) ==
    Cull([k \in DOMAIN st \cup {key} |-> IF k = key THEN Row(v, t, path) ELSE st[k]], t)

\* number of rows, expired ones included
StoreLen(st) == Cardinality(DOMAIN st)

\* Cache.volume(): size on disk, one unit per row
StoreVolume(st) == Cardinality(DOMAIN st)

Stats(size, volume, error) == [size |-> size, volume |-> volume, error |-> error]

Unguarded(fails, normal, fallback) ==
    IF fails THEN [raised |-> TRUE, ret |-> fallback]
    ELSE [raised |-> FALSE, ret |-> normal]

\* a method body inside try / except Exception: what the method returns when
\* the store works (normal) and when it raises (fallback)
Guarded(fails, normal, fallback) ==
    IF fails THEN [raised |-> FALSE, ret |-> fallback]
    ELSE [raised |-> FALSE, ret |-> normal]

\* where time t lies with respect to the end of the TTL of a row
Age(row, t) ==
    IF t < row.store_time + TtlSeconds THEN "before"
    ELSE IF t = row.store_time + TtlSeconds THEN "at" ELSE "after"

\* the record of one CacheManager operation: found, value, via and age tell
\* what the store physically held under the key and how old it was, changed
\* whether the operation changed the store
OpRecord(op, path, fails, outcome, st, stAfter) ==
    LET key == IF path \in Paths THEN GenerateKey(path) ELSE GenerateKeyFromPath(Null)
        row == IF key \in DOMAIN st THEN st[key] ELSE NoRow
    IN  [op |-> op, path |-> path, fails |-> fails,
         raised |-> outcome.raised, ret |-> outcome.ret,
         found |-> key \in DOMAIN st,
         value |-> row.value, via |-> row.path,
         age |-> IF key \in DOMAIN st THEN Age(row, now) ELSE "none",
         changed |-> stAfter # st]

NoRequest == [pc |-> "idle", path |-> Null, result |-> None, converted |-> FALSE]

CacheInit ==
    /\ store = <<>>
    /\ now = 0
    /\ req = [r \in Requests |-> NoRequest]
    /\ lastOp = OpRecord("none", Null, FALSE, Guarded(FALSE, None, None), <<>>, <<>>)

\* CacheManager.get
CacheGet(path, fails) ==
    Guarded(fails, StoreGet(store, GenerateKey(path), now), None)

\* the store after CacheManager.set
CacheSet(path, data, fails) ==
    IF fails THEN store ELSE StoreSet(store, GenerateKey(path), data, now, path)

\* DoclingProcessor.process_document: a dictionary with success true or false
Convert(path) ==
    IF Files[path] = Unreadable THEN {ProcessingFailed(path)}
    ELSE {Processed(Files[path], path), ProcessingFailed(path)}

\* process_document_with_cache up to its await: the cache lookup, and the
\* return of a cached value
BeginProcess(r) ==
    /\ req[r].pc # "converting"
    /\ \E path \in Paths, fails \in BOOLEAN :
          LET g == CacheGet(path, fails)
          IN  /\ lastOp' = OpRecord("get", path, fails, g, store, store)
              /\ req' = [req EXCEPT ![r] =
                            IF Truthy(g.ret)
                            THEN [pc |-> "done", path |-> path, result |-> g.ret,
                                  converted |-> FALSE]
                            ELSE [pc |-> "converting", path |-> path, result |-> None,
                                  converted |-> TRUE]]
    /\ UNCHANGED <<store, now>>
    /\ UNCHANGED otherThanCache

FinishProcessCachingAll(r) ==
    /\ req[r].pc = "converting"
    /\ \E result \in Convert(req[r].path), fails \in BOOLEAN :
          /\ store' = CacheSet(req[r].path, result, fails)
          /\ lastOp' = OpRecord("set", req[r].path, fails,
                                Guarded(fails, None, None), store, store')
          /\ req' = [req EXCEPT ![r].pc = "done", ![r].result = result]
    /\ UNCHANGED now
    /\ UNCHANGED otherThanCache

\* process_document_with_cache from its await on: the conversion ends, a
\* successful result is cached, the result is returned
FinishProcess(r) ==
    /\ req[r].pc = "converting"
    /\ \E result \in Convert(req[r].path), fails \in BOOLEAN :
          /\ IF result.success
             THEN /\ store' = CacheSet(req[r].path, result, fails)
                  /\ lastOp' = OpRecord("set", req[r].path, fails,
                                        Guarded(fails, None, None), store, store')
             ELSE UNCHANGED <<store, lastOp>>
          /\ req' = [req EXCEPT ![r].pc = "done", ![r].result = result]
    /\ UNCHANGED now
    /\ UNCHANGED otherThanCache

\* CacheManager.clear_expired, as CleanupScheduler._cleanup_cache calls it
ClearExpired ==
    /\ \E fails \in BOOLEAN :
          /\ store' = IF fails THEN store ELSE Expire(store, now)
          /\ lastOp' = OpRecord("expire", Null, fails, Guarded(fails, None, None),
                                store, store')
    /\ UNCHANGED <<now, req>>
    /\ UNCHANGED otherThanCache

\* CacheManager.clear_all
ClearAll ==
    /\ \E fails \in BOOLEAN :
          /\ store' = IF fails THEN store ELSE <<>>
          /\ lastOp' = OpRecord("clear", Null, fails, Guarded(fails, None, None),
                                store, store')
    /\ UNCHANGED <<now, req>>
    /\ UNCHANGED otherThanCache

\* CacheManager.get_stats
GetStats ==
    /\ \E fails \in BOOLEAN :
          lastOp' = OpRecord("stats", Null, fails,
                             Guarded(fails, Stats(StoreLen(store), StoreVolume(store), FALSE),
                                     Stats(0, 0, TRUE)),
                             store, store)
    /\ UNCHANGED <<store, now, req>>
    /\ UNCHANGED otherThanCache

\* time passes
Tick ==
    /\ now < Horizon
    /\ now' = now + ClockStep
    /\ UNCHANGED <<store, req, lastOp>>
    /\ UNCHANGED otherThanCache

CacheNext ==
    \/ \E r \in Requests : BeginProcess(r)
    \/ \E r \in Requests : FinishProcess(r)
    \/ ClearExpired
    \/ ClearAll
    \/ GetStats
    \/ Tick

(***************************************************************************)
(* The file store: FileManager.validate_file and _sanitize_filename.       *)
(* A string is the sequence of its characters.                             *)
(***************************************************************************)

MAX_FILE_SIZE_MB == 50
MAX_FILENAME_LENGTH == 200
KEPT_NAME_LENGTH == 195

\* self.max_size_bytes = max_size_mb * 1024 * 1024
MaxSizeBytes == MAX_FILE_SIZE_MB * 1024 * 1024

\* name parts as long as the two lengths, Margin less and Margin more
Margin == 2

UpperCase == <<"A", "B", "C", "D", "E", "F", "G", "H", "I", "J", "K", "L", "M",
               "N", "O", "P", "Q", "R", "S", "T", "U", "V", "W", "X", "Y", "Z">>
LowerCase == <<"a", "b", "c", "d", "e", "f", "g", "h", "i", "j", "k", "l", "m",
               "n", "o", "p", "q", "r", "s", "t", "u", "v", "w", "x", "y", "z">>
Digits == {"0", "1", "2", "3", "4", "5", "6", "7", "8", "9"}

Range(f) == {f[i] : i \in DOMAIN f}

\* str.lower() of one character and of a string
LowerChar(c) ==
    IF c \in Range(UpperCase)
    THEN LowerCase[CHOOSE i \in DOMAIN UpperCase : UpperCase[i] = c]
    ELSE c

Lower(s) == [i \in DOMAIN s |-> LowerChar(s[i])]

\* ALLOWED_EXTENSIONS: "pdf,docx,pptx,xlsx,png,jpg,jpeg,gif,txt,md".split(",")
ALLOWED_EXTENSIONS ==
    { <<"p", "d", "f">>, <<"d", "o", "c", "x">>, <<"p", "p", "t", "x">>,
      <<"x", "l", "s", "x">>, <<"p", "n", "g">>, <<"j", "p", "g">>,
      <<"j", "p", "e", "g">>, <<"g", "i", "f">>, <<"t", "x", "t">>, <<"m", "d">> }

\* self.allowed_extensions = set(ext.lower() for ext in allowed_extensions)
AllowedExtensions == {Lower(e) : e \in ALLOWED_EXTENSIONS}

\* '.' in s
HasDot(s) == \E i \in DOMAIN s : s[i] = "."

\* the position of the last dot of s, which has one
LastDot(s) == CHOOSE i \in DOMAIN s : s[i] = "." /\ \A j \in DOMAIN s : s[j] = "." => j <= i

\* s.rsplit('.', 1) of a string with a dot: the two parts
BeforeLastDot(s) == SubSeq(s, 1, LastDot(s) - 1)
AfterLastDot(s) == SubSeq(s, LastDot(s) + 1, Len(s))

Accepted == [ok |-> TRUE, reason |-> Null]
Rejected(why) == [ok |-> FALSE, reason |-> why]
NotValidated == [ok |-> FALSE, reason |-> "<pending>"]

ValidateFileBelowCeiling(filename, file_size) ==
    IF file_size >= MaxSizeBytes THEN Rejected("size exceeds limit")
    ELSE LET ext == IF HasDot(filename) THEN Lower(AfterLastDot(filename)) ELSE <<>>
         IN  IF ext \notin AllowedExtensions THEN Rejected("type not supported")
             ELSE Accepted

\* FileManager.validate_file
ValidateFile(filename, file_size) ==
    IF file_size > MaxSizeBytes THEN Rejected("size exceeds limit")
    ELSE LET ext == IF HasDot(filename) THEN Lower(AfterLastDot(filename)) ELSE <<>>
         IN  IF ext \notin AllowedExtensions THEN Rejected("type not supported")
             ELSE Accepted

\* the components of a path, split at "/"
RECURSIVE Components(_)
Components(s) ==
    IF \A i \in DOMAIN s : s[i] # "/" THEN <<s>>
    ELSE LET i == CHOOSE k \in DOMAIN s : s[k] = "/" /\ \A j \in 1..(k - 1) : s[j] # "/"
         IN  <<SubSeq(s, 1, i - 1)>> \o Components(SubSeq(s, i + 1, Len(s)))

\* Path(filename).name: the last component, empty and "." components dropped
PathName(s) ==
    LET parts == SelectSeq(Components(s), LAMBDA c : Len(c) > 0 /\ c # <<".">>)
    IN  IF Len(parts) = 0 THEN <<>> ELSE parts[Len(parts)]

\* the characters the pattern [^\w\s\-\.] leaves in place
SafeChar(c) ==
    c \in Range(UpperCase) \cup Range(LowerCase) \cup Digits \cup {"_", " ", "-", "."}

\* name[:n]
Take(s, n) == SubSeq(s, 1, IF Len(s) < n THEN Len(s) ELSE n)

\* FileManager._sanitize_filename
SanitizeFilename(filename) ==
    LET clean == SelectSeq(PathName(filename), SafeChar)
    IN  IF Len(clean) > MAX_FILENAME_LENGTH
        THEN LET name == IF HasDot(clean) THEN BeforeLastDot(clean) ELSE clean
                 ext == IF HasDot(clean) THEN AfterLastDot(clean) ELSE <<>>
             IN  Take(name, KEPT_NAME_LENGTH)
                    \o (IF Len(ext) > 0 THEN <<".">> \o ext ELSE <<>>)
        ELSE clean

\* n times the character c
Run(c, n) == [i \in 1..n |-> c]

\* the filenames of uploads: a directory part, a name part, an extension
Dirs == { <<>>, <<".", ".", "/">>, <<"/", "t", "/">> }

Stems ==
    { <<>>, <<"a">>, <<"a", ".", "b">>, <<"r", " ", "-", "_">>, <<"a", "$", "b">> }
    \cup { Run("a", n) : n \in (KEPT_NAME_LENGTH - Margin)..(MAX_FILENAME_LENGTH + Margin) }

Extensions ==
    { <<>>, <<".">>, <<".", "m", "d">>, <<".", "M", "D">>, <<".", "P", "d", "f">>,
      <<".", "j", "p", "e", "g">>, <<".", "e", "x", "e">>,
      <<".", "x", "h", "t", "m", "l">> }

Filenames == {d \o st \o e : d \in Dirs, st \in Stems, e \in Extensions}

FileSizes == {0, MaxSizeBytes - 1, MaxSizeBytes, MaxSizeBytes + 1}

NoUpload == [received |-> FALSE, filename |-> <<>>, size |-> 0]
NotSanitized == [done |-> FALSE, name |-> <<>>]

FilesInit ==
    /\ upload = NoUpload
    /\ verdict = NotValidated
    /\ safe = NotSanitized

\* a file arrives with a filename and a size
Receive ==
    /\ ~upload.received
    /\ \E f \in Filenames, n \in FileSizes :
          upload' = [received |-> TRUE, filename |-> f, size |-> n]
    /\ UNCHANGED <<verdict, safe>>
    /\ UNCHANGED otherThanFiles

\* validate_file(filename, file_size) on the upload
Validate ==
    /\ upload.received
    /\ verdict = NotValidated
    /\ verdict' = ValidateFile(upload.filename, upload.size)
    /\ UNCHANGED <<upload, safe>>
    /\ UNCHANGED otherThanFiles

\* _sanitize_filename(filename) on the upload, as save_file calls it
Sanitize ==
    /\ upload.received
    /\ ~safe.done
    /\ safe' = [done |-> TRUE, name |-> SanitizeFilename(upload.filename)]
    /\ UNCHANGED <<upload, verdict>>
    /\ UNCHANGED otherThanFiles

FilesNext ==
    \/ Receive
    \/ Validate
    \/ Sanitize

(***************************************************************************)
(* save_file and the upload route: FileManager.save_file, chat_with_files  *)
(***************************************************************************)

\* Path(settings.UPLOAD_DIR), "./uploads" by default
UPLOAD_DIR == <<"u", "p", "l", "o", "a", "d", "s">>

\* the contents of uploads: the empty file and the file holding "a"
Bodies == {"", "a"}

\* hashlib.md5(file_content).hexdigest()[:8]
Md5Hex8(body) ==
    IF body = "" THEN <<"d", "4", "1", "d", "8", "c", "d", "9">>
    ELSE <<"0", "c", "c", "1", "7", "5", "b", "9">>

\* datetime.now().strftime("%Y%m%d_%H%M%S") at two moments a second apart
Timestamps ==
    { <<"2", "0", "2", "4", "0", "1", "3", "1", "_", "2", "3", "5", "9", "5", "9">>,
      <<"2", "0", "2", "4", "0", "2", "0", "1", "_", "0", "0", "0", "0", "0", "0">> }

SaveFileRawName(body, filename, ts) ==
    UPLOAD_DIR \o <<"/">> \o ts \o <<"_">> \o Md5Hex8(body) \o <<"_">> \o filename

\* the path save_file writes to and returns:
\* upload_dir / f"{timestamp}_{file_hash}_{safe_filename}"
SaveFile(body, filename, ts) ==
    UPLOAD_DIR \o <<"/">> \o ts \o <<"_">> \o Md5Hex8(body) \o <<"_">>
        \o SanitizeFilename(filename)

NotSaved == [done |-> FALSE, filename |-> <<>>, path |-> <<>>]

\* save_file called with any content and any filename
SaveAny ==
    /\ ~saved.done
    /\ \E b \in Bodies, f \in Filenames, ts \in Timestamps :
          saved' = [done |-> TRUE, filename |-> f, path |-> SaveFile(b, f, ts)]
    /\ UNCHANGED <<post, updir, handed, docs>>
    /\ UNCHANGED otherThanUpload

\* the files one request to /v1/chat/upload can carry
MaxFiles == 2

RouteNames ==
    { <<"a", ".", "m", "d">>, <<".", ".", "/", "a", ".", "M", "D">>,
      <<"a", ".", "e", "x", "e">>, <<"a">> }

RouteSizes == {MaxSizeBytes, MaxSizeBytes + 1}

Uploaded == [filename : RouteNames, size : RouteSizes, body : Bodies]

UploadLists == UNION {[1..n -> Uploaded] : n \in 0..MaxFiles}

NoPost == [pc |-> "idle", files |-> <<>>, i |-> 0, status |-> 0, path |-> <<>>]

UploadInit ==
    /\ post = NoPost
    /\ updir = {}
    /\ handed = {}
    /\ docs = {}
    /\ saved = NotSaved

\* the loop "for file in files" moves to the next file, or ends
NextFile(p) ==
    IF p.i < Len(p.files)
    THEN [p EXCEPT !.pc = "validate", !.i = p.i + 1, !.path = <<>>]
    ELSE [p EXCEPT !.pc = "generate", !.path = <<>>]

\* a request arrives; "if files and len(files) > 0" guards the loop
PostUpload ==
    /\ post.pc = "idle"
    /\ \E fs \in UploadLists :
          post' = NextFile([NoPost EXCEPT !.files = fs])
    /\ UNCHANGED <<updir, handed, docs, saved>>
    /\ UNCHANGED otherThanUpload

RouteValidateLenient ==
    /\ post.pc = "validate"
    /\ post' = [post EXCEPT !.pc = "save"]
    /\ UNCHANGED <<updir, handed, docs, saved>>
    /\ UNCHANGED otherThanUpload

\* the file is read and validated; an invalid file ends the request with 400
RouteValidate ==
    /\ post.pc = "validate"
    /\ LET file == post.files[post.i]
       IN  IF ~ValidateFile(file.filename, file.size).ok
           THEN post' = [post EXCEPT !.pc = "responded", !.status = 400]
           ELSE post' = [post EXCEPT !.pc = "save"]
    /\ UNCHANGED <<updir, handed, docs, saved>>
    /\ UNCHANGED otherThanUpload

\* save_file writes the file of the current iteration under its stored name,
\* over a file of that name if there is one
RouteSave ==
    /\ post.pc = "save"
    /\ \E ts \in Timestamps :
          LET file == post.files[post.i]
              path == SaveFile(file.body, file.filename, ts)
          IN  /\ updir' = {r \in updir : r.path # path}
                             \cup {[path |-> path, from |-> post.i, body |-> file.body]}
              /\ post' = [post EXCEPT !.pc = "process", !.path = path]
    /\ UNCHANGED <<handed, docs, saved>>
    /\ UNCHANGED otherThanUpload

\* process_document_with_cache on the stored file: a cached conversion of the
\* same bytes is returned, otherwise the converter runs and a successful
\* conversion is cached
RouteProcess ==
    /\ post.pc = "process"
    /\ LET file == post.files[post.i]
       IN  /\ IF \E d \in docs : d.key = file.body
              THEN UNCHANGED <<handed, docs>>
              ELSE /\ handed' = handed \cup {[path |-> post.path, from |-> post.i]}
                   /\ \E success \in BOOLEAN :
                         docs' = IF success
                                 THEN docs \cup {[key |-> file.body, path |-> post.path,
                                                  from |-> post.i]}
                                 ELSE docs
    /\ post' = NextFile(post)
    /\ UNCHANGED <<updir, saved>>
    /\ UNCHANGED otherThanUpload

\* the prompt is built and the model generates: 200, or 500 when that raises
RouteGenerate ==
    /\ post.pc = "generate"
    /\ \E status \in {200, 500} :
          post' = [post EXCEPT !.pc = "responded", !.status = status]
    /\ UNCHANGED <<updir, handed, docs, saved>>
    /\ UNCHANGED otherThanUpload

UploadNext ==
    \/ PostUpload
    \/ RouteValidate
    \/ RouteSave
    \/ RouteProcess
    \/ RouteGenerate

(***************************************************************************)
(* Stream identifiers: _create_stream_id                                   *)
(***************************************************************************)

\* time.time() is read in ticks, TicksPerSecond of them to the second, up to
\* MaxTicks; at most MaxSessions streams are opened
TicksPerSecond == 2
MaxTicks == 5
MaxSessions == 3

\* int(time.time()) at tick t
WholeSeconds(t) == t \div TicksPerSecond

\* _create_stream_id at tick t: f"stream-{int(time.time())}"
CreateStreamId(t) == [prefix |-> "stream-", n |-> WholeSeconds(t)]

SessionsInit ==
    /\ wall = 0
    /\ sessions = <<>>

\* a stream request's generator starts and yields its opening piece, which
\* carries the identifier
OpenStream ==
    /\ Len(sessions) < MaxSessions
    /\ sessions' = Append(sessions, [id |-> CreateStreamId(wall), at |-> wall])
    /\ UNCHANGED wall
    /\ UNCHANGED otherThanSessions

\* time passes
WallTick ==
    /\ wall < MaxTicks
    /\ wall' = wall + 1
    /\ UNCHANGED sessions
    /\ UNCHANGED otherThanSessions

SessionsNext ==
    \/ OpenStream
    \/ WallTick

(***************************************************************************)
(* Request validation in the routes: chat_completion, stream_response,     *)
(* execute_function                                                        *)
(***************************************************************************)

Routes == {"chat", "stream", "execute"}

\* a message of the request body, by the keys it has
MessageShapes == SUBSET {"role", "content"}

\* the lists the messages field can hold
MaxMessages == 2
MessageLists == UNION {[1..n -> MessageShapes] : n \in 0..MaxMessages}

\* the bodies sent to /v1/chat/completions and the stream route, and to
\* /api/execute_function
\* (is_list false: the messages field holds something that is not a list)
ChatBodies ==
    [is_list : {TRUE}, messages : MessageLists, system_prompt : BOOLEAN]
        \cup [is_list : {FALSE}, messages : {<<>>}, system_prompt : BOOLEAN]
ExecuteBodies == [function_name : {"", "echo", "nope"}]

Bodies4(route) == IF route = "execute" THEN ExecuteBodies ELSE ChatBodies

\* what the try block of a handler does: it returns a response with a status,
\* or raises an exception of a class (an HTTPException carries a status)
Responds(status) == [raised |-> FALSE, class |-> Null, status |-> status]
Raises(class, status) == [raised |-> TRUE, class |-> class, status |-> status]

\* the request model of the route (pydantic): messages must be a list of
\* dictionaries; FastAPI answers 422 otherwise and the handler is not called
SchemaAccepts(route, body) ==
    route = "execute" \/ body.is_list

\* format_chat_messages reads msg["role"] and msg["content"] of every message
FormatChatMessages(messages) ==
    IF \E i \in DOMAIN messages : "role" \notin messages[i] THEN Raises("KeyError", 0)
    ELSE IF \E i \in DOMAIN messages : "content" \notin messages[i]
         THEN Raises("KeyError", 0)
         ELSE Responds(0)

\* tokenizing and generating: the ways it ends
GenerationOutcomes ==
    {Responds(200), Raises("RuntimeError", 0), Raises("ValueError", 0),
     Raises("OutOfMemoryError", 0)}

\* the try block of chat_completion
ChatTry(body) ==
    IF Len(body.messages) = 0 THEN {Raises("HTTPException", 400)}
    ELSE IF FormatChatMessages(body.messages).raised
         THEN {FormatChatMessages(body.messages)}
         ELSE IF \E i \in DOMAIN body.messages : body.messages[i] # {"role", "content"}
              THEN {Raises("HTTPException", 400)}
              ELSE GenerationOutcomes

\* the try block of stream_response
StreamTry(body) ==
    IF Len(body.messages) = 0 THEN {Raises("HTTPException", 400)}
    ELSE IF \E i \in DOMAIN body.messages : body.messages[i] # {"role", "content"}
         THEN {Raises("HTTPException", 400)}
         ELSE IF FormatChatMessages(body.messages).raised
              THEN {FormatChatMessages(body.messages)}
              ELSE GenerationOutcomes

\* the try block of execute_function: execute() returns a result that is a
\* success or a failure
ExecuteTry(body) ==
    IF body.function_name = "" THEN {Raises("HTTPException", 400)}
    ELSE IF body.function_name = "echo" THEN {Responds(200), Responds(400)}
         ELSE {Responds(400)}

TryOutcomes(route, body) ==
    CASE route = "chat" -> ChatTry(body)
      [] route = "stream" -> StreamTry(body)
      [] OTHER -> ExecuteTry(body)

\* isinstance(e, cls): every class here derives from Exception
IsInstanceOf(class, cls) == cls = "Exception" \/ class = cls

\* the except clauses of a route, in order: the class caught and the status of
\* the HTTPException raised in its place
Handlers(route) ==
    IF route = "stream"
    THEN << [cls |-> "OutOfMemoryError", status |-> 503],
            [cls |-> "ValueError", status |-> 400],
            [cls |-> "Exception", status |-> 500] >>
    ELSE << [cls |-> "Exception", status |-> 500] >>

\* the status of the response: of the returned response, or of the
\* HTTPException of the first except clause that matches what was raised
StatusOf(route, outcome) ==
    IF ~outcome.raised THEN outcome.status
    ELSE LET hs == Handlers(route)
             i == CHOOSE k \in DOMAIN hs :
                     /\ IsInstanceOf(outcome.class, hs[k].cls)
                     /\ \A j \in 1..(k - 1) : ~IsInstanceOf(outcome.class, hs[j].cls)
         IN  hs[i].status

NoHttp == [pc |-> "idle", route |-> Null, body |-> <<>>, outcome |-> Responds(0), status |-> 0]

HttpInit == inbound = NoHttp

\* a request arrives at one of the three routes
Arrive ==
    /\ inbound.pc = "idle"
    /\ \E route \in Routes : \E body \in Bodies4(route) :
          inbound' = [NoHttp EXCEPT !.pc = "arrived", !.route = route, !.body = body]
    /\ UNCHANGED otherThanHttp

\* the request is answered: 422 by the request model, else by the handler
Answer ==
    /\ inbound.pc = "arrived"
    /\ IF ~SchemaAccepts(inbound.route, inbound.body)
       THEN inbound' = [inbound EXCEPT !.pc = "responded", !.status = 422]
       ELSE \E o \in TryOutcomes(inbound.route, inbound.body) :
               inbound' = [inbound EXCEPT !.pc = "responded", !.outcome = o,
                                    !.status = StatusOf(inbound.route, o)]
    /\ UNCHANGED otherThanHttp

HttpNext ==
    \/ Arrive
    \/ Answer

(***************************************************************************)
(* Age-based eviction: FileManager.cleanup_old_files                       *)
(***************************************************************************)

\* the clock of the eviction model advances by the hour, MaxHours times at most
MaxHours == 3

\* the names the upload directory can hold: two files and a subdirectory
DiskNames == {"u1", "u2", "sub"}

Entry(kind, mtime) == [kind |-> kind, mtime |-> mtime]

\* the maximum age cleanup_old_files is called with (its default, and the
\* scheduler's argument)
MaxAges == {1}

\* what can go wrong on one entry of the scan: nothing, file_path.stat(),
\* file_path.unlink()
NoFailure == [at |-> Null, op |-> Null]
ScanFailures == {NoFailure} \cup [at : DiskNames, op : {"stat", "unlink"}]

\* the orders in which glob('*') can yield the entries of d
ScanOrders(d) ==
    {o \in [1..Cardinality(DOMAIN d) -> DOMAIN d] :
        \A i, j \in DOMAIN o : i # j => o[i] # o[j]}

\* d without the entry f
Unlink(d, f) == [g \in DOMAIN d \ {f} |-> d[g]]

OlderOrAtCutoff(mtime, cutoff) == mtime <= cutoff

\* file_time < cutoff_time
Older(mtime, cutoff) == mtime < cutoff

\* the loop of cleanup_old_files from entry i of the order on: the directory
\* and the count when the loop ends or an exception leaves it
RECURSIVE ScanFrom(_, _, _, _, _, _)
ScanFrom(order, i, d, count, cutoff, fail) ==
    IF i > Len(order) THEN [disk |-> d, count |-> count, aborted |-> FALSE]
    ELSE LET f == order[i]
         IN  IF d[f].kind # "file"
             THEN ScanFrom(order, i + 1, d, count, cutoff, fail)
             ELSE IF fail = [at |-> f, op |-> "stat"]
             THEN [disk |-> d, count |-> count, aborted |-> TRUE]
             ELSE IF ~Older(d[f].mtime, cutoff)
             THEN ScanFrom(order, i + 1, d, count, cutoff, fail)
             ELSE IF fail = [at |-> f, op |-> "unlink"]
             THEN [disk |-> d, count |-> count, aborted |-> TRUE]
             ELSE ScanFrom(order, i + 1, Unlink(d, f), count + 1, cutoff, fail)

\* FileManager.cleanup_old_files(max_age_hours) at time t: the except clause
\* around the loop logs, and the count is returned
CleanupOldFiles(d, t, max_age_hours, order, fail) ==
    LET cutoff == t - max_age_hours * SECONDS_PER_HOUR
        r == ScanFrom(order, 1, d, 0, cutoff, fail)
    IN  [disk |-> r.disk, count |-> r.count, aborted |-> r.aborted,
         cutoff |-> cutoff, before |-> d, fail |-> fail, raised |-> FALSE,
         done |-> TRUE]

NoSweep ==
    [disk |-> <<>>, count |-> 0, aborted |-> FALSE, cutoff |-> 0, before |-> <<>>,
     fail |-> NoFailure, raised |-> FALSE, done |-> FALSE]

CleanupInit ==
    /\ disk = <<>>
    /\ sweep = NoSweep

\* an entry appears in the upload directory: a saved file or a subdirectory
WriteEntry ==
    /\ \E f \in DiskNames \ DOMAIN disk :
          disk' = [g \in DOMAIN disk \cup {f} |->
                      IF g = f THEN Entry(IF f = "sub" THEN "dir" ELSE "file", now)
                      ELSE disk[g]]
    /\ UNCHANGED <<now, sweep>>
    /\ UNCHANGED otherThanCleanup

\* an hour passes
HourPasses ==
    /\ now < MaxHours * SECONDS_PER_HOUR
    /\ now' = now + SECONDS_PER_HOUR
    /\ UNCHANGED <<disk, sweep>>
    /\ UNCHANGED otherThanCleanup

\* a call of cleanup_old_files
EvictOlderThan ==
    /\ \E age \in MaxAges, order \in ScanOrders(disk), fail \in ScanFailures :
          /\ sweep' = CleanupOldFiles(disk, now, age, order, fail)
          /\ disk' = sweep'.disk
    /\ UNCHANGED now
    /\ UNCHANGED otherThanCleanup

CleanupNext ==
    \/ WriteEntry
    \/ HourPasses
    \/ EvictOlderThan

(***************************************************************************)
(* The cleanup scheduler: CleanupScheduler over an APScheduler             *)
(* AsyncIOScheduler                                                        *)
(***************************************************************************)

\* hours the clock of the scheduler model runs through
MaxSchedHours == 6

FILES_INTERVAL_HOURS == 1
CACHE_INTERVAL_HOURS == 6
FILES_MAX_AGE_HOURS == 1

JobIds == {"cleanup_files", "cleanup_cache"}

\* a job with an IntervalTrigger(hours = h) created at time t: first run one
\* interval later
Job(h, t) == [interval |-> h, next_run |-> t + h * SECONDS_PER_HOUR]

\* scheduler.add_job(..., id = id, replace_existing = True)
AddJob(js, id, job) == [j \in DOMAIN js \cup {id} |-> IF j = id THEN job ELSE js[j]]

\* unrecovered: the jobs whose latest run failed
NoRun == [job |-> Null, at |-> 0, failed |-> FALSE, raised |-> FALSE, unrecovered |-> {}]

SchedInit ==
    /\ sched = [state |-> "stopped", started |-> FALSE, raised |-> FALSE]
    /\ jobs = <<>>
    /\ inflight = {}
    /\ lastRun = NoRun

\* CleanupScheduler.start: the two add_job calls, then scheduler.start(), which
\* raises when the scheduler is already running
SchedulerStart ==
    /\ jobs' = AddJob(AddJob(jobs, "cleanup_files", Job(FILES_INTERVAL_HOURS, now)),
                      "cleanup_cache", Job(CACHE_INTERVAL_HOURS, now))
    /\ sched' = [state |-> "running", started |-> TRUE,
                 raised |-> sched.state = "running"]
    /\ UNCHANGED <<inflight, lastRun, now, disk, sweep, store, lastOp>>
    /\ UNCHANGED otherThanSched

\* CleanupScheduler.shutdown: scheduler.shutdown() stops the scheduler; its
\* exception when the scheduler is not running is caught and logged; runs in
\* progress are not interrupted
SchedulerShutdown ==
    /\ sched' = [sched EXCEPT !.state = "stopped", !.raised = FALSE]
    /\ UNCHANGED <<jobs, inflight, lastRun, now, disk, sweep, store, lastOp>>
    /\ UNCHANGED otherThanSched

\* job j is due
Due(j) == j \in DOMAIN jobs /\ jobs[j].next_run <= now

JobBeginWhenDue(j) ==
    /\ Due(j)
    /\ j \notin inflight
    /\ inflight' = inflight \cup {j}
    /\ jobs' = [jobs EXCEPT ![j].next_run = @ + jobs[j].interval * SECONDS_PER_HOUR]
    /\ UNCHANGED <<sched, lastRun, now, disk, sweep, store, lastOp>>
    /\ UNCHANGED otherThanSched

\* the running scheduler submits the due job j to its executor and computes
\* the job's next run time
JobBegin(j) ==
    /\ sched.state = "running"
    /\ Due(j)
    /\ j \notin inflight
    /\ inflight' = inflight \cup {j}
    /\ jobs' = [jobs EXCEPT ![j].next_run = @ + jobs[j].interval * SECONDS_PER_HOUR]
    /\ UNCHANGED <<sched, lastRun, now, disk, sweep, store, lastOp>>
    /\ UNCHANGED otherThanSched

JobRunUncaught(j, fails) ==
    [job |-> j, at |-> now, failed |-> fails, raised |-> fails,
     unrecovered |-> IF fails THEN lastRun.unrecovered \cup {j}
                     ELSE lastRun.unrecovered \ {j}]

\* the record of a run of _cleanup_files or _cleanup_cache: the exception of
\* a failed run is caught and logged inside the job
JobRun(j, fails) ==
    [job |-> j, at |-> now, failed |-> fails, raised |-> FALSE,
     unrecovered |-> IF fails THEN lastRun.unrecovered \cup {j}
                     ELSE lastRun.unrecovered \ {j}]

\* the run of _cleanup_files ends: cleanup_old_files(max_age_hours=1) ran, or
\* the run failed
CleanupFilesJob ==
    /\ "cleanup_files" \in inflight
    /\ inflight' = inflight \ {"cleanup_files"}
    /\ \E fails \in BOOLEAN :
          /\ lastRun' = JobRun("cleanup_files", fails)
          /\ IF fails THEN UNCHANGED <<disk, sweep>>
             ELSE \E order \in ScanOrders(disk), fail \in ScanFailures :
                    /\ sweep' = CleanupOldFiles(disk, now, FILES_MAX_AGE_HOURS, order, fail)
                    /\ disk' = sweep'.disk
    /\ UNCHANGED <<sched, jobs, now, store, lastOp>>
    /\ UNCHANGED otherThanSched

\* the run of _cleanup_cache ends: clear_expired() ran, or the run failed
CleanupCacheJob ==
    /\ "cleanup_cache" \in inflight
    /\ inflight' = inflight \ {"cleanup_cache"}
    /\ \E fails \in BOOLEAN :
          /\ lastRun' = JobRun("cleanup_cache", fails)
          /\ IF fails THEN UNCHANGED <<store, lastOp>>
             ELSE \E storeFails \in BOOLEAN :
                    /\ store' = IF storeFails THEN store ELSE Expire(store, now)
                    /\ lastOp' = OpRecord("expire", Null, storeFails,
                                          Guarded(storeFails, None, None), store, store')
    /\ UNCHANGED <<sched, jobs, now, disk, sweep>>
    /\ UNCHANGED otherThanSched

\* an hour passes; the timer of a running scheduler fires when a job is due
SchedHourPasses ==
    /\ now < MaxSchedHours * SECONDS_PER_HOUR
    /\ sched.state = "running" => \A j \in DOMAIN jobs : ~Due(j)
    /\ now' = now + SECONDS_PER_HOUR
    /\ UNCHANGED <<sched, jobs, inflight, lastRun, disk, sweep, store, lastOp>>
    /\ UNCHANGED otherThanSched

SchedNext ==
    \/ SchedulerStart
    \/ SchedulerShutdown
    \/ \E j \in JobIds : JobBegin(j)
    \/ CleanupFilesJob
    \/ CleanupCacheJob
    \/ SchedHourPasses

(***************************************************************************)
(* Specifications                                                          *)
(***************************************************************************)
Init == StreamInit /\ RegInit /\ CacheInit /\ FilesInit /\ CleanupInit /\ SchedInit
        /\ UploadInit /\ SessionsInit /\ HttpInit

Next == StreamNext \/ RegNext \/ ToolsNext \/ CacheNext \/ FilesNext \/ CleanupNext \/ SchedNext
        \/ UploadNext \/ SaveAny \/ SessionsNext \/ HttpNext

Spec == Init /\ [][Next]_vars

\* the stream bridge alone
SpecStream == Init /\ [][StreamNext]_vars

\* join(timeout) returns once the timeout has passed, whatever the thread does
FairStream == SpecStream /\ WF_vars(JoinReturn)

\* the function registry alone
SpecRegistry == Init /\ [][RegNext]_vars

\* the file store alone
SpecFiles == Init /\ [][FilesNext]_vars

\* save_file on every filename
SpecSave == Init /\ [][SaveAny]_vars

\* one request to the upload route
SpecUpload == Init /\ [][UploadNext]_vars

\* stream sessions opening as time passes
SpecSessions == Init /\ [][SessionsNext]_vars

\* one request to the chat, stream or execute-function route
SpecHttp == Init /\ [][HttpNext]_vars

\* registrations and get_tools_schema calls
SpecTools == Init /\ [][ToolsNext]_vars

\* the cleanup scheduler alone
SpecScheduler == Init /\ [][SchedNext]_vars

\* age-based eviction alone
SpecCleanup == Init /\ [][CleanupNext]_vars

\* the document cache alone
SpecCache == Init /\ [][CacheNext]_vars

\* execute() calls on the registry the application starts with
LifespanInit == StreamInit /\ LifespanRegInit /\ CacheInit /\ FilesInit /\ CleanupInit /\ SchedInit
        /\ UploadInit /\ SessionsInit /\ HttpInit

SpecLifespan == LifespanInit /\ [][LifespanNext]_vars

(***************************************************************************)
(* Properties of the token stream bridge                                   *)
(***************************************************************************)

\* the chunk records among the pieces s, in order
Chunks(s) == SelectSeq(s, LAMBDA p : p.kind = "chunk")

\* the terminal records (a non-null finish_reason) among the pieces s
Terminals(s) == SelectSeq(s, LAMBDA p : p.finish_reason # Null)

\* the generation call completed normally
CompletedNormally == thread \in {"returning", "exited"}

\* C1: when the producer emits N tokens and completes normally and the
\* consumer reads to the end, the consumer has seen exactly N chunk records
\* with indices 0..N-1 in that order, then exactly one terminal record, the
\* last piece, with finish_reason "stop" (for N = 0 the terminal record
\* follows the opening directly).
C1_NChunksThenStop ==
    (pc = "done" /\ ~cancelled /\ CompletedNormally) =>
        LET ch == Chunks(out) IN
        /\ Len(ch) = Len(produced)
        /\ \A i \in 1..Len(ch) : ch[i].index = i - 1
        /\ Len(Terminals(out)) = 1
        /\ out[Len(out)].kind = "close"
        /\ out[Len(out)].finish_reason = "stop"
        /\ (Len(produced) = 0 => out = <<Opening, Closing>>)

C1_Witness ==
    /\ pc = "done"
    /\ ~cancelled
    /\ CompletedNormally
    /\ Len(produced) = 2
    /\ Len(Chunks(out)) = 2

\* C2: in every reachable state the chunks delivered so far carry the indices
\* 0..k-1 without a gap, and the chunk with index i holds the i-th token the
\* producer generated: nothing is delivered twice or out of order.
C2_ChunksInGenerationOrder ==
    LET ch == Chunks(out) IN
    /\ Len(ch) <= Len(produced)
    /\ \A i \in 1..Len(ch) :
          /\ ch[i].index = i - 1
          /\ ch[i].content = produced[i]

C2_Witness ==
    /\ Len(Chunks(out)) = 2
    /\ produced[1] # produced[2]
    /\ cancelled
    /\ pc = "done"

\* C3: once the consumer has cancelled, nothing more is emitted and no
\* exception leaves the generator; cancelled after K < N tokens (before the
\* loop ended), the stream carries no terminal record.
C3_CancelEmitsNothingMore ==
    cancelled =>
        /\ out = outAtCancel
        /\ escaped = "none"
        /\ (cancelAt # "y_close" => Len(Terminals(out)) = 0)

C3_Witness ==
    /\ cancelAt = "y_chunk"
    /\ pc = "done"
    /\ Len(Chunks(out)) = 1
    /\ Len(produced) >= 2

\* C4: if the generation call raises in its thread, the consumer's sequence
\* still ends: the generator has returned, or it can take a step (it never
\* sits in next(streamer) with nothing left to wake it).
C4_SequenceEndsAfterFailure ==
    thread = "failed" => (pc = "done" \/ ENABLED ConsumerNext)

\* C5: on cancellation the stop signal comes before the bounded wait: every
\* join that follows the cancellation has a stop between the two.
C5_StopBeforeJoin ==
    \A c \in DOMAIN log : \A j \in DOMAIN log :
        (log[c] = "cancel" /\ log[j] = "join" /\ c < j) =>
            \E s \in DOMAIN log : c < s /\ s < j /\ log[s] = "stop"

\* C6: the teardown makes at most one bounded wait, and once the consumer has
\* stopped the generator finishes whatever the generation thread does; the
\* thread may still be running then.
C6_TeardownBounded ==
    /\ [](joins <= 1)
    /\ (cancelled ~> pc = "done")

C6_Witness ==
    /\ cancelled
    /\ pc = "done"
    /\ joins = 1
    /\ thread = "running"

(***************************************************************************)
(* Properties of the function registry                                     *)
(***************************************************************************)

\* the word sequence sub occurs in the message msg
Contains(msg, sub) ==
    \E k \in 0..(Len(msg) - Len(sub)) :
        \A i \in 1..Len(sub) : msg[k + i] = sub[i]

\* the positions of the parameters flagged required and absent from args
MissingRequired(params, args) ==
    {i \in DOMAIN params : params[i].required /\ params[i].name \notin DOMAIN args}

\* C7: execute() on a registered function with a required parameter absent
\* from the arguments returns success=false, its error names the first such
\* parameter (and no other absent one), and no handler has been invoked.
C7_MissingRequiredRejected ==
    \A c \in Callers :
        LET cl == call[c]
            miss == MissingRequired(cl.func.parameters, cl.args)
        IN  (cl.pc # "idle" /\ cl.func # NoFunc /\ miss # {}) =>
                /\ cl.pc = "returned"
                /\ cl.result.success = FALSE
                /\ \E i \in miss :
                      /\ \A j \in miss : i <= j
                      /\ cl.result.error =
                            <<"Missing", "required", "parameter:", cl.func.parameters[i].name>>
                /\ cl.invoked = <<>>

C7_Witness ==
    \E c \in Callers :
        /\ call[c].pc = "returned"
        /\ Len(call[c].func.parameters) = 2
        /\ Cardinality(MissingRequired(call[c].func.parameters, call[c].args)) = 2
        /\ Contains(call[c].result.error, <<"units">>)

\* C8: execute() for a name that is not registered returns success=false with
\* an error containing "not found", invokes no handler and leaves the registry
\* as it was.
C8_UnknownNameNotFound ==
    [][\A c \in Callers :
          (call[c].pc = "idle" /\ call'[c].pc # "idle"
              /\ call'[c].name \notin DOMAIN functions) =>
                /\ call'[c].pc = "returned"
                /\ call'[c].result.success = FALSE
                /\ Contains(call'[c].result.error, <<"not", "found">>)
                /\ call'[c].invoked = <<>>
                /\ functions' = functions]_vars

C8_Witness ==
    \E c \in Callers :
        /\ call[c].pc = "returned"
        /\ call[c].name = "missing_fn"
        /\ call[c].func = NoFunc
        /\ DOMAIN functions # {}

\* C9: execute() never raises: no call ends with an exception leaving
\* execute(), and a call whose handler raised has returned success=false
\* carrying the exception's message.
C9_ExecuteNeverRaises ==
    \A c \in Callers :
        /\ call[c].pc # "raised"
        /\ (call[c].pc # "idle" /\ call[c].outcome.kind = "raise") =>
              /\ call[c].pc = "returned"
              /\ call[c].result = [success |-> FALSE, result |-> Null,
                                   error |-> call[c].outcome.msg]

C9_Witness ==
    \E c, d \in Callers :
        /\ call[c].pc = "returned"
        /\ call[c].outcome.exc = "TypeError"
        /\ call[d].pc = "returned"
        /\ call[d].outcome.exc = "TimeoutError"

\* the values the body of handler h can return on args
ReturnValues(h, args) == {o.value : o \in {x \in HandlerBody(h, args) : x.kind = "return"}}

\* C10: execute() on a registered function with every required parameter
\* present, whose handler returned v without raising, returns success=true
\* with result v, for plain handlers and for awaited coroutine handlers.
C10_SuccessWrapsResult ==
    \A c \in Callers :
        LET cl == call[c] IN
        (/\ cl.pc = "returned"
         /\ cl.func # NoFunc
         /\ MissingRequired(cl.func.parameters, cl.args) = {}
         /\ cl.outcome.kind = "return") =>
            /\ cl.result.success = TRUE
            /\ cl.result.result \in ReturnValues(cl.func.handler, cl.args)
            /\ cl.result.error = <<>>
            /\ cl.invoked = <<cl.func.handler>>

C10_Witness ==
    \E c, d \in Callers :
        /\ call[c].pc = "returned"
        /\ call[c].result = [success |-> TRUE, result |-> "yo", error |-> <<>>]
        /\ call[c].func.handler = "h_fetch"
        /\ call[d].pc = "returned"
        /\ call[d].result = [success |-> TRUE, result |-> "hi", error |-> <<>>]
        /\ call[d].func.handler = "h_echo"

\* the result execute() returns for the call cl when nothing else runs: the
\* checks of execute, then the handler with its request ending as it did
SoloResult(cl) ==
    LET start == [Idle EXCEPT !.name = cl.name, !.args = cl.args, !.func = cl.func]
    IN  { IF s.pc = "awaiting"
          THEN Finish(s, HandlerRun(s.func.handler, s.args, cl.io), s.invoked).result
          ELSE s.result : s \in ExecuteBody(start) }

\* C11: an execute() call that has returned holds the result it returns when
\* run alone on the same name and arguments, whatever the call of the other
\* caller (on another name, suspended, completed before or after, failed) did
C11_ConcurrentCallsIndependent ==
    \A c \in Callers :
        call[c].pc = "returned" => call[c].result \in SoloResult(call[c])

\* two calls on distinct names, both suspended at their await and both
\* completed, one failing on a timeout and one succeeding
C11_Witness ==
    \E c, d \in Callers :
        /\ call[c].pc = "returned" /\ call[d].pc = "returned"
        /\ call[c].name # call[d].name
        /\ call[c].func.handler = "h_fetch" /\ call[d].func.handler = "h_fetch"
        /\ call[c].args # call[d].args
        /\ call[c].io = "timeout" /\ ~call[c].result.success
        /\ call[d].io = "ok" /\ call[d].result = Success(call[d].args["text"])

\* C12: the registry holds, under each registered name and no other, the
\* definition of the latest register call for that name, and registering a
\* definition the registry already holds leaves the registry unchanged
C12_LastRegistrationWins ==
    /\ [](/\ functions = lastReg
          /\ \A n \in DOMAIN functions : functions[n].name = n)
    /\ [][\A d \in Catalogue :
            (d.name \in DOMAIN functions /\ functions[d.name] = d /\ Register(d))
                => functions' = functions]_vars

\* "echo" was registered with one handler, called, and registered again with
\* another, next to the other names
C12_Witness ==
    /\ DOMAIN functions = {"echo", "fetch", "boom"}
    /\ functions["echo"].handler = "h_fetch"
    /\ \E c \in Callers : call[c].name = "echo" /\ call[c].func.handler = "h_echo"

\* C13: a call whose handler's outbound request timed out returns a failure
\* (success false) whose error carries the timeout message
C13_TimeoutIsFailure ==
    \A c \in Callers :
        (call[c].pc # "awaiting" /\ call[c].io = "timeout") =>
            /\ call[c].pc = "returned"
            /\ call[c].result.success = FALSE
            /\ Contains(call[c].result.error, <<"timed", "out">>)

(***************************************************************************)
(* Properties of the document cache                                        *)
(***************************************************************************)

\* the path chosen by the lookup step of request r
LookedUp(r, path) == BeginProcess(r) /\ req'[r].path = path /\ lastOp'.path = path

\* p and q are two readable files holding the same bytes
SameBytes(p, q) == p # q /\ Files[p] # Unreadable /\ Files[p] = Files[q]

\* C14: two readable files with the same bytes at different paths have the same
\* key, and when a row set through one of them is within its TTL, a lookup
\* through the other (the store working) returns the row's value and the
\* request returns it without invoking the converter
C14_SameBytesSameKey ==
    /\ [](\A p, q \in Paths : SameBytes(p, q) => GenerateKey(p) = GenerateKey(q))
    /\ [][\A r \in Requests : \A p, q \in Paths :
            ( /\ SameBytes(p, q)
              /\ GenerateKey(p) \in DOMAIN store
              /\ store[GenerateKey(p)].path = p
              /\ now < store[GenerateKey(p)].store_time + TtlSeconds
              /\ LookedUp(r, q)
              /\ ~lastOp'.fails )
            => /\ lastOp'.ret = store[GenerateKey(p)].value
               /\ req'[r].pc = "done"
               /\ req'[r].result = store[GenerateKey(p)].value
               /\ ~req'[r].converted]_vars

\* a request on b.pdf was answered from the row set through a.pdf
C14_Witness ==
    \E r \in Requests :
        /\ req[r].pc = "done" /\ req[r].path = "b.pdf" /\ ~req[r].converted
        /\ req[r].result = Processed("x", "a.pdf")
        /\ lastOp.op = "get" /\ lastOp.path = "b.pdf"
        /\ lastOp.found /\ lastOp.via = "a.pdf"

\* C15: a get (the store working) that finds a row stored at time t returns the
\* row's value at every time before t + ttl and None at every time after
\* t + ttl, the row being still in the store
C15_LazyExpiry ==
    (lastOp.op = "get" /\ ~lastOp.fails /\ lastOp.found) =>
        /\ lastOp.age = "before" => lastOp.ret = lastOp.value
        /\ lastOp.age = "after" => lastOp.ret = None

\* a get after the TTL missed on a row that no sweep had removed, and the row
\* is still there
C15_Witness ==
    /\ lastOp.op = "get" /\ ~lastOp.fails /\ lastOp.found
    /\ lastOp.age = "after"
    /\ lastOp.ret = None
    /\ GenerateKey(lastOp.path) \in DOMAIN store
    /\ \E r \in Requests : req[r].pc = "converting" /\ req[r].path = lastOp.path

Fallback(op) == IF op = "stats" THEN Stats(0, 0, TRUE) ELSE None

\* C17: no cache operation raises; one on which the store failed left the store
\* as it was and returned a miss (get), nothing (set, clear_expired,
\* clear_all) or zero counts with an error (get_stats)
C17_CacheNeverRaises ==
    /\ ~lastOp.raised
    /\ lastOp.fails => (~lastOp.changed /\ lastOp.ret = Fallback(lastOp.op))
    /\ (lastOp.op = "stats" /\ ~lastOp.fails) => ~lastOp.ret.error

\* the store failed on a get whose row was within its TTL: a miss, the row kept
C17_Witness ==
    /\ lastOp.op = "get" /\ lastOp.fails /\ lastOp.found
    /\ lastOp.age = "before"
    /\ lastOp.ret = None
    /\ store # <<>>

\* C18: a clear_expired sweep (the store working) removes every row whose
\* expiry time has passed, and every key that was a hit before it is a hit
\* with the same value after it
C18_SweepRemovesOnlyExpired ==
    [][(ClearExpired /\ ~lastOp'.fails) =>
        \A k \in DOMAIN store :
            /\ store[k].expire_time < now => k \notin DOMAIN store'
            /\ Truthy(StoreGet(store, k, now)) =>
                  StoreGet(store', k, now) = StoreGet(store, k, now)]_vars

\* a sweep removed the expired row of one content and kept the live row of
\* another
C18_Witness ==
    /\ lastOp.op = "expire" /\ ~lastOp.fails /\ lastOp.changed
    /\ \E k \in DOMAIN store : Live(store[k], now)
    /\ \E p \in Paths : Files[p] # Unreadable /\ GenerateKey(p) \notin DOMAIN store

(***************************************************************************)
(* Properties of the file store                                            *)
(***************************************************************************)

\* the text after the last dot of f, lowercased, is in the allow-list
ExtensionAllowed(f) ==
    \E i \in DOMAIN f :
        /\ f[i] = "."
        /\ \A j \in (i + 1)..Len(f) : f[j] # "."
        /\ Lower(SubSeq(f, i + 1, Len(f))) \in AllowedExtensions

\* C19: validate_file accepts exactly when the size is at most the ceiling and
\* the extension, lowercased, is in the allow-list; a rejection carries a reason
C19_ValidateAcceptsExactly ==
    verdict # NotValidated =>
        /\ verdict.ok <=> (upload.size <= MaxSizeBytes /\ ExtensionAllowed(upload.filename))
        /\ ~verdict.ok => verdict.reason # Null

\* a file of exactly the ceiling size with an upper-case extension was accepted
C19_Witness ==
    /\ verdict = Accepted
    /\ upload.size = MaxSizeBytes
    /\ upload.filename = <<"a", ".", "M", "D">>

\* s ends with e
EndsWith(s, e) == Len(e) <= Len(s) /\ SubSeq(s, Len(s) - Len(e) + 1, Len(s)) = e

\* the extension of the last component of f (empty when it has no dot)
OriginalExtension(f) == IF HasDot(PathName(f)) THEN AfterLastDot(PathName(f)) ELSE <<>>

\* C20: the sanitized filename has at most 200 characters and ends with the
\* extension of the filename it was made from
C20_SanitizedBounded ==
    safe.done =>
        /\ Len(safe.name) <= MAX_FILENAME_LENGTH
        /\ EndsWith(safe.name, OriginalExtension(upload.filename))

(***************************************************************************)
(* Properties of age-based eviction                                        *)
(***************************************************************************)

\* the files of d last modified before the cutoff
OldFiles(d, cutoff) == {f \in DOMAIN d : d[f].kind = "file" /\ d[f].mtime < cutoff}

\* the entries the sweep removed
Deleted(sw) == DOMAIN sw.before \ DOMAIN sw.disk

\* C21: a cleanup_old_files call in which no file operation failed deleted
\* exactly the files last modified before now - maxAge, kept every entry
\* modified at or after the cutoff unchanged, and returned the number of files
\* it deleted (the count equals the deletions in every call)
C21_EvictsExactlyOlder ==
    sweep.done =>
        /\ sweep.count = Cardinality(Deleted(sweep))
        /\ Deleted(sweep) \subseteq OldFiles(sweep.before, sweep.cutoff)
        /\ \A f \in DOMAIN sweep.disk : sweep.disk[f] = sweep.before[f]
        /\ ~sweep.aborted => Deleted(sweep) = OldFiles(sweep.before, sweep.cutoff)

\* a sweep deleted a two-hour-old file and kept a file modified exactly at the
\* cutoff and an older subdirectory
C21_Witness ==
    /\ sweep.done /\ ~sweep.aborted /\ sweep.count = 1
    /\ \E f \in Deleted(sweep) : sweep.before[f].mtime < sweep.cutoff
    /\ \E f, g \in DOMAIN sweep.disk :
          /\ sweep.disk[f].kind = "file" /\ sweep.disk[f].mtime = sweep.cutoff
          /\ sweep.disk[g].kind = "dir" /\ sweep.disk[g].mtime < sweep.cutoff

\* C22: in a cleanup_old_files call in which the operation on one file failed,
\* every other file older than the cutoff was deleted, and the call returned
\* the number of files it deleted
C22_ScanContinuesAfterFailure ==
    sweep.done =>
        /\ ~sweep.raised
        /\ sweep.count = Cardinality(Deleted(sweep))
        /\ OldFiles(sweep.before, sweep.cutoff) \ {sweep.fail.at} \subseteq Deleted(sweep)

(***************************************************************************)
(* Properties of the cleanup scheduler                                     *)
(***************************************************************************)

\* C23: the scheduler is Stopped until start(), Running from start() to
\* shutdown() and Stopped after it; before start() there is no job and no
\* run; start() leaves exactly the two jobs, file eviction every hour (run
\* with a maximum age of one hour) and cache sweep every six hours; a run
\* begins only while the scheduler is Running
C23_StoppedRunningStopped ==
    /\ [](~sched.started =>
            /\ sched.state = "stopped" /\ jobs = <<>>
            /\ inflight = {} /\ lastRun = NoRun)
    /\ [](sched.started =>
            /\ DOMAIN jobs = {"cleanup_files", "cleanup_cache"}
            /\ jobs["cleanup_files"].interval = 1
            /\ jobs["cleanup_cache"].interval = 6)
    /\ []((lastRun.job = "cleanup_files" /\ ~lastRun.failed) =>
            sweep.cutoff = lastRun.at - SECONDS_PER_HOUR)
    /\ [][/\ sched'.state # sched.state =>
                \/ sched.state = "stopped" /\ SchedulerStart
                \/ sched.state = "running" /\ SchedulerShutdown
          /\ \A j \in JobIds :
                (j \notin inflight /\ j \in inflight') => sched.state = "running"]_vars

\* the scheduler ran a job, was shut down, and a job has since come due
\* without beginning
C23_Witness ==
    /\ sched.started /\ sched.state = "stopped"
    /\ lastRun.job = "cleanup_files"
    /\ inflight = {}
    /\ \E j \in JobIds : Due(j)

\* C24: a failed run of a job is caught inside the job; it leaves the scheduler
\* Running and both jobs registered with their next run times, each at most
\* one interval ahead
C24_FailedRunHaltsNothing ==
    /\ [](~lastRun.raised)
    /\ [](sched.state = "running" =>
            \A j \in DOMAIN jobs :
                jobs[j].next_run <= now + jobs[j].interval * SECONDS_PER_HOUR)
    /\ [][((CleanupFilesJob \/ CleanupCacheJob) /\ lastRun'.failed) =>
            (sched' = sched /\ jobs' = jobs)]_vars

\* the latest run of the file job failed; since then the cache job has fired
\* at its own interval and the file job has begun again, the scheduler Running
C24_Witness ==
    /\ sched.state = "running"
    /\ lastRun.job = "cleanup_cache"
    /\ "cleanup_files" \in lastRun.unrecovered
    /\ "cleanup_files" \in inflight

(***************************************************************************)
(* The wire format of a stream                                             *)
(***************************************************************************)

\* C25: the closing literal is emitted at most once and nothing follows it;
\* every chunk carries finish_reason null; a stream that completes normally
\* ends with the closing literal, and the pieces of a stream that ends with it
\* are the opening literal, then chunks separated by single commas (none
\* before the first chunk, none after the last), then the closing literal
C25_WireFormat ==
    /\ \A i \in 1..(Len(out) - 1) : out[i].kind # "close"
    /\ \A i \in DOMAIN out : out[i].kind = "chunk" => out[i].finish_reason = Null
    /\ (pc = "done" /\ ~cancelled /\ CompletedNormally) => out[Len(out)] = Closing
    /\ (Len(out) > 0 /\ out[Len(out)] = Closing) =>
          /\ out[1] = Opening
          /\ \A i \in 2..(Len(out) - 1) :
                out[i].kind = IF i % 2 = 0 THEN "chunk" ELSE "comma"
          /\ Len(out) = 2 \/ out[Len(out) - 1].kind = "chunk"

\* a stream of three tokens read to the end: seven pieces
C25_Witness ==
    /\ pc = "done" /\ ~cancelled /\ CompletedNormally
    /\ Len(Chunks(out)) = 3
    /\ Len(out) = 7
    /\ out[Len(out)] = Closing

(***************************************************************************)
(* Properties of get_tools_schema                                          *)
(***************************************************************************)

\* descriptor d describes the registered definition f
Describes(d, f) ==
    /\ d.name = f.name
    /\ DOMAIN d.properties = {f.parameters[i].name : i \in DOMAIN f.parameters}
    /\ \A i \in DOMAIN f.parameters :
          d.properties[f.parameters[i].name].hasEnum = f.parameters[i].enum
    /\ {d.required[i] : i \in DOMAIN d.required} =
          {f.parameters[i].name : i \in {k \in DOMAIN f.parameters : f.parameters[k].required}}
    /\ \A i, j \in DOMAIN d.required : i # j => d.required[i] # d.required[j]

\* C26: get_tools_schema returned one descriptor per function registered at
\* the call, each with a property per declared parameter, enum exactly where
\* declared and required listing exactly the required parameters; a call
\* leaves the registry unchanged, and a call on the registry the previous call
\* saw returns the same result
C26_ToolsSchemaFaithful ==
    /\ [](tools.called =>
            /\ Cardinality(tools.result) = Cardinality(DOMAIN tools.of)
            /\ \A n \in DOMAIN tools.of :
                  \E d \in tools.result : Describes(d, tools.of[n]))
    /\ [][GetToolsSchema =>
            /\ functions' = functions
            /\ (tools.called /\ tools.of = functions) => tools'.result = tools.result]_vars

\* the schema of a registry of three functions: "echo" with its required enum
\* parameter and its required plain parameter, "fetch" with an optional enum,
\* "ping" with no parameter
C26_Witness ==
    /\ tools.called /\ tools.of = functions
    /\ DOMAIN functions = {"echo", "fetch", "ping"}
    /\ \E d, e \in tools.result :
          /\ d.name = "echo" /\ d.required = <<"units", "text">>
          /\ d.properties["units"].hasEnum /\ ~d.properties["text"].hasEnum
          /\ e.name = "fetch" /\ e.required = <<"text">> /\ e.properties["units"].hasEnum
    /\ \E d \in tools.result : d.name = "ping" /\ d.required = <<>> /\ DOMAIN d.properties = {}

(***************************************************************************)
(* Properties of the upload route and of save_file                         *)
(***************************************************************************)

\* the file passes validation: size at most the ceiling, extension allowed
PassesValidation(file) ==
    file.size <= MaxSizeBytes /\ ExtensionAllowed(file.filename)

\* the positions of the request's files that something was done for
Origins(records) == {r.from : r \in records}

\* C27: nothing of a file that fails validation is written to the upload
\* directory, handed to the converter or added to the cache: every stored
\* file, every conversion and every cache row comes from a file of the
\* request that passed validation, and what is converted or cached was stored
C27_InvalidNeverStored ==
    /\ \A k \in Origins(updir) \cup Origins(handed) \cup Origins(docs) :
          k \in DOMAIN post.files /\ PassesValidation(post.files[k])
    /\ \A h \in handed \cup docs : \E r \in updir : r.path = h.path
    /\ \A k \in DOMAIN post.files :
          (~PassesValidation(post.files[k]) /\ post.i >= k /\ post.pc # "validate")
              => post.pc = "responded" /\ post.status = 400 /\ post.i = k

\* a request of two files answered 400: the first, valid, was stored,
\* converted and cached; the second, over the ceiling, left nothing
C27_Witness ==
    /\ post.pc = "responded" /\ post.status = 400
    /\ Len(post.files) = 2
    /\ PassesValidation(post.files[1])
    /\ post.files[2].size > MaxSizeBytes /\ ExtensionAllowed(post.files[2].filename)
    /\ Origins(updir) = {1} /\ Origins(handed) = {1} /\ Origins(docs) = {1}

\* the part of path s before its last "/", and the part after it
Parent(s) ==
    LET i == CHOOSE k \in DOMAIN s : s[k] = "/" /\ \A j \in (k + 1)..Len(s) : s[j] # "/"
    IN  SubSeq(s, 1, i - 1)

Basename(s) ==
    LET i == CHOOSE k \in DOMAIN s : s[k] = "/" /\ \A j \in (k + 1)..Len(s) : s[j] # "/"
    IN  SubSeq(s, i + 1, Len(s))

\* C28: the path save_file returns is a direct child of the upload directory:
\* upload directory, one separator, then a name that holds no separator and is
\* not empty, "." or ".."
C28_StoredPathIsDirectChild ==
    saved.done =>
        /\ \E k \in DOMAIN saved.path : saved.path[k] = "/"
        /\ Parent(saved.path) = UPLOAD_DIR
        /\ \A k \in DOMAIN Basename(saved.path) : Basename(saved.path)[k] \notin {"/", "\\"}
        /\ Basename(saved.path) \notin {<<>>, <<".">>, <<".", ".">>}
        /\ \E ts \in Timestamps : SubSeq(Basename(saved.path), 1, Len(ts)) = ts

\* "../a.md" was saved: the stored name ends with "_a.md"
C28_Witness ==
    /\ saved.done
    /\ saved.filename = <<".", ".", "/", "a", ".", "m", "d">>
    /\ EndsWith(Basename(saved.path), <<"_", "a", ".", "m", "d">>)

(***************************************************************************)
(* Properties of stream identifiers                                        *)
(***************************************************************************)

\* C29: no two stream sessions carry the same identifier
C29_StreamIdsUnique ==
    \A i, j \in DOMAIN sessions : i # j => sessions[i].id # sessions[j].id

(***************************************************************************)
(* Properties of request validation                                        *)
(***************************************************************************)

\* the request fails request validation: messages not a list or empty, a
\* message without role or content, an empty function_name
FailsRequestValidation(route, body) ==
    IF route = "execute" THEN body.function_name = ""
    ELSE \/ ~body.is_list
         \/ Len(body.messages) = 0
         \/ \E i \in DOMAIN body.messages : body.messages[i] # {"role", "content"}

\* C30: a request that fails request validation is answered with 400
C30_InvalidRequestIs400 ==
    (inbound.pc = "responded" /\ FailsRequestValidation(inbound.route, inbound.body))
        => inbound.status = 400

====
